---- MODULE Spec2Model ----
(***************************************************************************)
(* Verification model of the CgviewDesktop import core: the GenBank        *)
(* feature scan, the post-parse normalization pipeline, the visualization  *)
(* sanitizers and the large-dataset optimizer.                             *)
(*                                                                         *)
(* JavaScript strings are sequences of one-character strings, so that      *)
(* trim(), Number() and the regular expressions are computed, not assumed. *)
(* JavaScript values are tagged records: undefined, null, bool, num (a     *)
(* finite number n/d), nan (a non-finite number), str, arr, obj.  A thrown *)
(* TypeError is the value Thrown.                                          *)
(***************************************************************************)
EXTENDS Integers, Sequences, FiniteSets, TLC

VARIABLES
  \* sanitizers (visualization-normalizers.ts)
  sanPc, sanIn, sanOut, sanOut2,
  \* normalization pipeline (import/index.ts)
  normPc, normIn, normOut,
  \* GenBank feature scan (genbank-parser.ts, parseFeatures)
  gbPc, gbLines, gbIndex, gbInFeatures, gbCurrent, gbFeatures, gbWarnings,
  \* LargeDatasetOptimizer instance (cache, access order, last call)
  optLists, optCache, optOrder, optCall, optResult, optCalls,
  \* stratifiedSampling call (data and target, the random outcome returned)
  sampPc, sampIn, sampOut,
  \* one CacheManager: maxSize, the Map (insertion order), accessOrder; the last
  \* call with the state it found, the calls made, and for each key the number of
  \* the call that last used it
  cmMax, cmCache, cmOrder, cmLast, cmCalls, cmUsed,
  \* one parseLocation call: the raw location text and what it returned
  locPc, locIn, locOut,
  \* one ParserRegistry.parse call: the formats registered, the request, the result
  regPc, regParsers, regIn, regOut,
  \* one Gff3AnnotationParser.parse call: the lines of the file, the index of the
  \* forEach callback, meta, maxEnd, the features and the warnings
  gffPc, gffLines, gffIndex, gffMeta, gffMaxEnd, gffFeatures, gffWarnings,
  \* one CsvAnnotationParser.parse call: the header fields and the rows of cells
  \* the file holds, the index of the forEach callback, meta, maxStop, the
  \* features and the warnings
  csvPc, csvHeader, csvCells, csvIndex, csvMeta, csvMaxStop, csvFeatures, csvWarnings,
  \* one invocation of the datasets:parse handler: the payload, what the parser
  \* and the persistence adapter will do, the normalized result, the arguments
  \* of the createDataset calls made, and what the handler's promise settled to
  ipcPc, ipcPayload, ipcParser, ipcPersists, ipcResult, ipcCreated, ipcReply

sanVars == <<sanPc, sanIn, sanOut, sanOut2>>
normVars == <<normPc, normIn, normOut>>
gbVars == <<gbPc, gbLines, gbIndex, gbInFeatures, gbCurrent, gbFeatures, gbWarnings>>
optVars == <<optLists, optCache, optOrder, optCall, optResult, optCalls>>
sampVars == <<sampPc, sampIn, sampOut>>
\* the machines added after the first four
cmVars == <<cmMax, cmCache, cmOrder, cmLast, cmCalls, cmUsed>>
locVars == <<locPc, locIn, locOut>>
regVars == <<regPc, regParsers, regIn, regOut>>
gffVars == <<gffPc, gffLines, gffIndex, gffMeta, gffMaxEnd, gffFeatures, gffWarnings>>
csvVars ==
  <<csvPc, csvHeader, csvCells, csvIndex, csvMeta, csvMaxStop, csvFeatures, csvWarnings>>
ipcVars == <<ipcPc, ipcPayload, ipcParser, ipcPersists, ipcResult, ipcCreated, ipcReply>>
restVars == <<sampVars, cmVars, locVars, regVars, gffVars, csvVars, ipcVars>>
vars == <<sanVars, normVars, gbVars, optVars, restVars>>
coreVars == <<sanVars, normVars, gbVars, optVars>>
otherThanSamp == <<coreVars, cmVars, locVars, regVars, gffVars, csvVars,
  ipcVars>>
otherThanCm == <<coreVars, sampVars, locVars, regVars, gffVars, csvVars,
  ipcVars>>
otherThanLoc == <<coreVars, sampVars, cmVars, regVars, gffVars, csvVars,
  ipcVars>>
otherThanReg == <<coreVars, sampVars, cmVars, locVars, gffVars, csvVars,
  ipcVars>>
otherThanGff == <<coreVars, sampVars, cmVars, locVars, regVars, csvVars,
  ipcVars>>
otherThanCsv == <<coreVars, sampVars, cmVars, locVars, regVars, gffVars,
  ipcVars>>
otherThanIpc == <<coreVars, sampVars, cmVars, locVars, regVars, gffVars,
  csvVars>>

-----------------------------------------------------------------------------
(* Generic helpers *)

Max2(a, b) == IF a >= b THEN a ELSE b
Min2(a, b) == IF a <= b THEN a ELSE b
SetMax(S) == CHOOSE x \in S : \A y \in S : y <= x
SetMin(S) == CHOOSE x \in S : \A y \in S : x <= y
\* ceil(a / b) and floor(a / b) for b > 0
CeilDiv(a, b) == -((-a) \div b)
FloorDiv(a, b) == a \div b

-----------------------------------------------------------------------------
(* JavaScript values *)

Undef == [t |-> "undefined"]
Null == [t |-> "null"]
Thrown == [t |-> "throw"]
Bool(b) == [t |-> "bool", b |-> b]
Num(n) == [t |-> "num", n |-> n, d |-> 1]
Frac(n, d) == [t |-> "num", n |-> n, d |-> d]
NaNv == [t |-> "nan"]
Str(s) == [t |-> "str", s |-> s]
Arr(v) == [t |-> "arr", v |-> v]
Obj(f) == [t |-> "obj", f |-> f]

\* record.key for a record that is not null/undefined
Get(o, k) == IF o.t = "obj" /\ k \in DOMAIN o.f THEN o.f[k] ELSE Undef
\* "key in record": a TypeError when record is a primitive
HasKey(o, k) == o.t = "obj" /\ k \in DOMAIN o.f
IsPrimitive(o) == o.t \notin {"obj", "arr"}
\* !value
Falsy(v) ==
  \/ v.t \in {"undefined", "null", "nan"}
  \/ v.t = "bool" /\ ~v.b
  \/ v.t = "num" /\ v.n = 0
  \/ v.t = "str" /\ v.s = <<>>
\* a ?? b
Coalesce(a, b) == IF a.t \in {"undefined", "null"} THEN b ELSE a

-----------------------------------------------------------------------------
(* JavaScript strings *)

DigitChars == <<"0", "1", "2", "3", "4", "5", "6", "7", "8", "9">>
Digits == {DigitChars[i] : i \in 1..10}
DigitVal(c) == (CHOOSE i \in 1..10 : DigitChars[i] = c) - 1
HexChars == Digits \cup {"a", "b", "c", "d", "e", "f", "A", "B", "C", "D", "E", "F"}
IsSpace(c) == c \in {" ", "\t", "\n"}

RECURSIVE TrimLeft(_)
TrimLeft(s) == IF s # <<>> /\ IsSpace(Head(s)) THEN TrimLeft(Tail(s)) ELSE s
RECURSIVE TrimRight(_)
TrimRight(s) ==
  IF s # <<>> /\ IsSpace(s[Len(s)]) THEN TrimRight(SubSeq(s, 1, Len(s) - 1)) ELSE s
\* String.prototype.trim
Trim(s) == TrimRight(TrimLeft(s))

RECURSIVE DigitsValue(_)
DigitsValue(s) ==
  IF s = <<>> THEN 0 ELSE 10 * DigitsValue(SubSeq(s, 1, Len(s) - 1)) + DigitVal(s[Len(s)])
AllDigits(s) == s # <<>> /\ \A i \in 1..Len(s) : s[i] \in Digits

\* Number(string) for the strings of the model (no fraction, exponent or radix
\* prefix occurs in them): blank -> 0, [+-]digits -> the integer, else NaN
TrimmedToNumber(r) ==
  IF r = <<>> THEN Num(0)
  ELSE IF AllDigits(r) THEN Num(DigitsValue(r))
  ELSE IF Head(r) = "-" /\ AllDigits(Tail(r)) THEN Num(-DigitsValue(Tail(r)))
  ELSE IF Head(r) = "+" /\ AllDigits(Tail(r)) THEN Num(DigitsValue(Tail(r)))
  ELSE NaNv
StrToNumber(s) == TrimmedToNumber(Trim(s))

RECURSIVE DecStr(_)
\* String(n) for n >= 0
DecStr(n) == IF n < 10 THEN <<DigitChars[n + 1]>> ELSE DecStr(n \div 10) \o <<DigitChars[(n % 10) + 1]>>

-----------------------------------------------------------------------------
(* palette (shared/constants/palette) *)

DEFAULT_FEATURE_COLORS ==
  << <<"#", "3", "8", "b", "d", "f", "8">>,
     <<"#", "a", "8", "5", "5", "f", "7">>,
     <<"#", "f", "9", "7", "3", "1", "6">>,
     <<"#", "2", "2", "c", "5", "5", "e">>,
     <<"#", "f", "4", "3", "f", "5", "e">>,
     <<"#", "9", "4", "a", "3", "b", "8">>,
     <<"#", "1", "0", "b", "9", "8", "1">>,
     <<"#", "f", "a", "c", "c", "1", "5">> >>

\* index is always a finite integer in the callers modelled here
getDefaultFeatureColor(index) ==
  IF index < 0 THEN DEFAULT_FEATURE_COLORS[1]
  ELSE DEFAULT_FEATURE_COLORS[(index % Len(DEFAULT_FEATURE_COLORS)) + 1]

-----------------------------------------------------------------------------
(* visualization-normalizers.ts *)

sGcContent == <<"g", "c", "-", "c", "o", "n", "t", "e", "n", "t">>
sGcSkew == <<"g", "c", "-", "s", "k", "e", "w">>
sCoverage == <<"c", "o", "v", "e", "r", "a", "g", "e">>
sCustom == <<"c", "u", "s", "t", "o", "m">>
sAlignment == <<"a", "l", "i", "g", "n", "m", "e", "n", "t">>
sSynteny == <<"s", "y", "n", "t", "e", "n", "y">>

PLOT_TRACK_KINDS == {sGcContent, sGcSkew, sCoverage, sCustom}
LINK_TRACK_KINDS == {sAlignment, sSynteny, sCustom}

DEFAULT_LINK_COLOR == <<"#", "f", "9", "7", "3", "1", "6">>

\* HEX_COLOR_PATTERN = /^#[0-9a-fA-F]{6}$/ on a string
MatchesHexColor(s) ==
  /\ Len(s) = 7
  /\ s[1] = "#"
  /\ \A i \in 2..7 : s[i] \in HexChars

isValidHexColor(value) == value.t = "str" /\ MatchesHexColor(Trim(value.s))

toFiniteNumber(value) ==
  IF value.t = "num" THEN value
  ELSE IF value.t = "str" THEN
    (LET parsed == StrToNumber(value.s) IN IF parsed.t = "num" THEN parsed ELSE Undef)
  ELSE Undef

RECURSIVE toFiniteNumberFromKeys(_, _)
\* Thrown when record is a primitive: "key in record" raises a TypeError
toFiniteNumberFromKeys(record, keys) ==
  IF keys = <<>> THEN Undef
  ELSE IF IsPrimitive(record) THEN Thrown
  ELSE IF ~HasKey(record, Head(keys)) THEN toFiniteNumberFromKeys(record, Tail(keys))
  ELSE LET value == toFiniteNumber(Get(record, Head(keys))) IN
         IF value # Undef THEN value ELSE toFiniteNumberFromKeys(record, Tail(keys))

\* ensureId testing the length before trimming: a blank string becomes an empty id
ensureId_LengthBeforeTrim(value, fallback) ==
  IF value.t = "str" /\ value.s # <<>> THEN Str(Trim(value.s)) ELSE fallback

ensureId(value, fallback) ==
  IF value.t = "str" /\ Trim(value.s) # <<>> THEN Str(Trim(value.s)) ELSE fallback

ensurePlotColor(value, index) ==
  IF isValidHexColor(value) THEN Str(Trim(value.s)) ELSE Str(getDefaultFeatureColor(index))

ensureLinkColor(value) ==
  IF value.t = "str" /\ Trim(value.s) # <<>> THEN Str(Trim(value.s))
  ELSE Str(DEFAULT_LINK_COLOR)

ensurePlotKind(value) ==
  IF value.t = "str" /\ Trim(value.s) \in PLOT_TRACK_KINDS THEN Str(Trim(value.s))
  ELSE Str(sCustom)

ensureLinkKind(value) ==
  IF value.t = "str" /\ Trim(value.s) \in LINK_TRACK_KINDS THEN Str(Trim(value.s))
  ELSE Str(sCustom)

ensureBoolean(value, fallback) == IF value.t = "bool" THEN value ELSE fallback

\* Array.prototype.map followed by filter(x => x !== null); a callback that
\* throws aborts the whole call
MapFilterNull(mapped) ==
  IF \E i \in 1..Len(mapped) : mapped[i] = Thrown THEN Thrown
  ELSE Arr(SelectSeq(mapped, LAMBDA x : x # Null))

\* the points callback of normalizePlotTracks
PlotPointOf(value) ==
  IF Falsy(value) THEN Null
  ELSE LET position == toFiniteNumberFromKeys(value, <<"position", "bp", "pos">>)
           score == toFiniteNumberFromKeys(value, <<"value", "score">>)
       IN IF position = Thrown \/ score = Thrown THEN Thrown
          ELSE IF position = Undef \/ score = Undef THEN Null
          ELSE Obj([position |-> position, value |-> score])

\* the track callback of normalizePlotTracks; index is 0-based
PlotTrackOf(record, index) ==
  IF Falsy(record) THEN Null
  ELSE LET id == ensureId(Get(record, "id"), Str(<<"p", "l", "o", "t", "-">> \o DecStr(index + 1)))
           pointsRaw == IF Get(record, "points").t = "arr" THEN Get(record, "points").v ELSE <<>>
           points == MapFilterNull([i \in 1..Len(pointsRaw) |-> PlotPointOf(pointsRaw[i])])
       IN IF points = Thrown THEN Thrown
          ELSE Obj([id |-> id,
                    name |-> ensureId(Get(record, "name"), id),
                    kind |-> ensurePlotKind(Get(record, "kind")),
                    color |-> ensurePlotColor(Get(record, "color"), index),
                    points |-> points,
                    visible |-> ensureBoolean(Get(record, "visible"), Bool(TRUE)),
                    baseline |-> toFiniteNumber(Get(record, "baseline")),
                    axisMin |-> toFiniteNumber(Get(record, "axisMin")),
                    axisMax |-> toFiniteNumber(Get(record, "axisMax")),
                    source |-> ensureId(Get(record, "source"), id),
                    thicknessRatio |-> toFiniteNumber(Get(record, "thicknessRatio"))])

normalizePlotTracks(input) ==
  IF input.t # "arr" THEN Arr(<<>>)
  ELSE MapFilterNull([i \in 1..Len(input.v) |-> PlotTrackOf(input.v[i], i - 1)])

\* the connections callback of normalizeLinkTracks
LinkConnectionOf(connection) ==
  IF Falsy(connection) THEN Null
  ELSE LET sourceStart == toFiniteNumber(Get(connection, "sourceStart"))
           sourceEnd == toFiniteNumber(Get(connection, "sourceEnd"))
           targetStart == toFiniteNumber(Get(connection, "targetStart"))
           targetEnd == toFiniteNumber(Get(connection, "targetEnd"))
           rawColor == Get(connection, "color")
           linkColor == IF rawColor.t = "str" THEN Str(Trim(rawColor.s)) ELSE Undef
       IN IF Undef \in {sourceStart, sourceEnd, targetStart, targetEnd} THEN Null
          ELSE Obj([sourceStart |-> sourceStart,
                    sourceEnd |-> sourceEnd,
                    targetStart |-> targetStart,
                    targetEnd |-> targetEnd,
                    value |-> toFiniteNumber(Get(connection, "value")),
                    color |-> IF linkColor # Undef /\ linkColor.s # <<>> THEN linkColor ELSE Undef])

\* the track callback of normalizeLinkTracks; index is 0-based
LinkTrackOf(record, index) ==
  IF Falsy(record) THEN Null
  ELSE LET id == ensureId(Get(record, "id"), Str(<<"l", "i", "n", "k", "-">> \o DecStr(index + 1)))
           connectionsRaw ==
             IF Get(record, "connections").t = "arr" THEN Get(record, "connections").v ELSE <<>>
           connections ==
             MapFilterNull([i \in 1..Len(connectionsRaw) |-> LinkConnectionOf(connectionsRaw[i])])
       IN Obj([id |-> id,
               name |-> ensureId(Get(record, "name"), id),
               kind |-> ensureLinkKind(Get(record, "kind")),
               color |-> ensureLinkColor(Get(record, "color")),
               visible |-> ensureBoolean(Get(record, "visible"), Bool(TRUE)),
               connections |-> connections,
               thicknessRatio |-> toFiniteNumber(Get(record, "thicknessRatio"))])

normalizeLinkTracks(input) ==
  IF input.t # "arr" THEN Arr(<<>>)
  ELSE MapFilterNull([i \in 1..Len(input.v) |-> LinkTrackOf(input.v[i], i - 1)])

\* A FeatureStateMap is an object whose keys are arbitrary strings: the value
\* [t |-> "map", e |-> entries], entries in property (insertion) order.
Map(e) == [t |-> "map", e |-> e]

\* Object.entries(input) for an object with string keys or an array
EntriesOf(input) ==
  IF input.t = "map" THEN input.e
  ELSE IF input.t = "arr" THEN [i \in 1..Len(input.v) |-> [k |-> DecStr(i - 1), v |-> input.v[i]]]
  ELSE <<>>

\* result[key] = value: an existing property keeps its place
SetEntry(entries, key, value) ==
  IF \E i \in 1..Len(entries) : entries[i].k = key
  THEN [i \in 1..Len(entries) |-> IF entries[i].k = key THEN [k |-> key, v |-> value] ELSE entries[i]]
  ELSE Append(entries, [k |-> key, v |-> value])

\* the forEach callback of normalizeFeatureStates
FeatureStateOf(value) ==
  LET rawColor == Get(value, "color")
      colorCandidate == IF rawColor.t = "str" THEN Trim(rawColor.s) ELSE <<>>
  IN Obj([visible |-> ensureBoolean(Get(value, "visible"), Bool(TRUE)),
          color |-> Str(IF colorCandidate # <<>> THEN colorCandidate ELSE getDefaultFeatureColor(0))])

RECURSIVE FeatureStatesFrom(_, _)
FeatureStatesFrom(entries, result) ==
  IF entries = <<>> THEN result
  ELSE LET key == Trim(Head(entries).k) IN
         FeatureStatesFrom(Tail(entries),
           IF key = <<>> THEN result ELSE SetEntry(result, key, FeatureStateOf(Head(entries).v)))

normalizeFeatureStates(input) ==
  IF Falsy(input) \/ input.t \notin {"map", "arr", "obj"} THEN Map(<<>>)
  ELSE Map(FeatureStatesFrom(EntriesOf(input), <<>>))

-----------------------------------------------------------------------------
(* Inputs of the sanitizers: arbitrary JSON-like values *)

sA == <<"a">>
sPaddedA == <<" ", "a", " ">>
sBlank == <<" ">>
sRed == <<"r", "e", "d">>
sHexUpperPadded == <<" ", "#", "A", "B", "C", "D", "E", "F", " ">>
sHexShort == <<"#", "1", "2", "3", "4", "5">>
sHexBadDigit == <<"#", "g", "g", "g", "g", "g", "g">>
sBogus == <<"b", "o", "g", "u", "s">>
sCoveragePadded == <<" ", "c", "o", "v", "e", "r", "a", "g", "e", " ">>
sFive == <<"5">>
sMinusTwo == <<"-", "2">>

IdInputs == {Undef, Num(7), Str(<<>>), Str(sBlank), Str(sPaddedA), Str(sA)}
ColorInputs ==
  {Undef, Num(5), Str(<<>>), Str(sBlank), Str(sRed), Str(sHexShort), Str(sHexBadDigit),
   Str(DEFAULT_FEATURE_COLORS[2]), Str(sHexUpperPadded)}
KindInputs == {Undef, Str(sGcSkew), Str(sCoveragePadded), Str(sBogus), Str(sAlignment), Bool(TRUE)}
VisibleInputs == {Undef, Bool(FALSE), Bool(TRUE), Str(sA), Num(0)}
NumberInputs == {Undef, Num(3), Num(0), NaNv, Str(sFive), Str(sMinusTwo), Str(sRed), Str(<<>>), Null}

\* up to MaxItems items of S, in every order
SeqsUpTo(S, n) == UNION {[1..k -> S] : k \in 0..n}

MaxPoints == 2
PointInputs ==
  {Null, Undef, Num(5), Str(sA), Bool(TRUE), Arr(<<>>),
   Obj([position |-> Num(1), value |-> Num(2)]),
   Obj([bp |-> Str(sFive), score |-> Num(4)]),
   Obj([position |-> NaNv, pos |-> Num(9), value |-> Str(sRed), score |-> Num(0)]),
   Obj([position |-> NaNv, value |-> Num(1)]),
   Obj([pos |-> Num(1)]),
   Obj([position |-> Num(8), value |-> Num(1), extra |-> Str(sA)])}
PointListInputs == {Undef, Str(sA)} \cup {Arr(p) : p \in SeqsUpTo(PointInputs, MaxPoints)}

BasePlotTrack ==
  [id |-> Str(sA), name |-> Str(sPaddedA), kind |-> Str(sGcSkew),
   color |-> Str(DEFAULT_FEATURE_COLORS[2]),
   points |-> Arr(<<Obj([position |-> Num(1), value |-> Num(2)])>>),
   visible |-> Bool(FALSE), baseline |-> Num(3), axisMin |-> Undef, axisMax |-> Str(sFive),
   source |-> Undef, thicknessRatio |-> NaNv]

PlotTrackInputs ==
  {Null, Undef, Num(5), Num(0), Str(sA), Bool(TRUE), Arr(<<>>), Obj([other |-> Num(1)])}
  \cup {Obj([BasePlotTrack EXCEPT !.id = i, !.color = c]) : i \in IdInputs, c \in ColorInputs}
  \cup {Obj([BasePlotTrack EXCEPT !.name = i, !.source = j]) : i \in IdInputs, j \in IdInputs}
  \cup {Obj([BasePlotTrack EXCEPT !.kind = k, !.visible = v]) : k \in KindInputs, v \in VisibleInputs}
  \cup {Obj([BasePlotTrack EXCEPT !.baseline = n, !.thicknessRatio = n, !.axisMin = n]) : n \in NumberInputs}
  \cup {Obj([BasePlotTrack EXCEPT !.points = p]) : p \in PointListInputs}

\* the tracks that precede another one in a two-track input
LeadingPlotTracks ==
  {Null, Num(5), Obj([other |-> Num(1)]), Obj([BasePlotTrack EXCEPT !.color = Str(sRed)])}

PlotInputs ==
  {Undef, Null, Num(1), Str(sA), Obj([other |-> Num(1)]), Arr(<<>>)}
  \cup {Arr(<<x>>) : x \in PlotTrackInputs}
  \cup {Arr(<<x, y>>) : x \in LeadingPlotTracks, y \in PlotTrackInputs}

MaxConnections == 2
BaseConnection ==
  [sourceStart |-> Num(1), sourceEnd |-> Num(2), targetStart |-> Str(sFive), targetEnd |-> Num(9),
   value |-> Undef, color |-> Undef]
ConnectionInputs ==
  {Null, Num(5), Str(sA), Obj([sourceStart |-> Num(1), sourceEnd |-> Num(2), targetStart |-> Num(3)])}
  \cup {Obj([BaseConnection EXCEPT !.targetEnd = n, !.value = n]) : n \in {Num(4), NaNv, Str(sRed), Str(<<>>), Undef}}
  \cup {Obj([BaseConnection EXCEPT !.color = c]) : c \in {Str(sBlank), Str(sRed), Str(sHexUpperPadded), Num(5)}}
ConnectionListInputs == {Undef, Str(sA)} \cup {Arr(c) : c \in SeqsUpTo(ConnectionInputs, MaxConnections)}

BaseLinkTrack ==
  [id |-> Str(sA), name |-> Undef, kind |-> Str(sSynteny), color |-> Str(DEFAULT_LINK_COLOR),
   visible |-> Bool(TRUE), connections |-> Arr(<<Obj(BaseConnection)>>), thicknessRatio |-> Num(3)]

LinkTrackInputs ==
  {Null, Undef, Num(5), Num(0), Str(sA), Arr(<<>>), Obj([other |-> Num(1)])}
  \cup {Obj([BaseLinkTrack EXCEPT !.id = i, !.color = c]) : i \in IdInputs, c \in ColorInputs}
  \cup {Obj([BaseLinkTrack EXCEPT !.name = i, !.thicknessRatio = n]) : i \in IdInputs, n \in NumberInputs}
  \cup {Obj([BaseLinkTrack EXCEPT !.kind = k, !.visible = v]) : k \in KindInputs, v \in VisibleInputs}
  \cup {Obj([BaseLinkTrack EXCEPT !.connections = c]) : c \in ConnectionListInputs}

LeadingLinkTracks == {Null, Num(5), Obj([other |-> Num(1)])}

LinkInputs ==
  {Undef, Null, Num(1), Str(sA), Obj([other |-> Num(1)]), Arr(<<>>)}
  \cup {Arr(<<x>>) : x \in LinkTrackInputs}
  \cup {Arr(<<x, y>>) : x \in LeadingLinkTracks, y \in LinkTrackInputs}

MaxStateEntries == 2
StateKeyInputs == {sBlank, sA, sPaddedA, <<"C", "D", "S">>}
StateValueInputs ==
  {Null, Num(5), Obj([other |-> Num(1)]),
   Obj([visible |-> Bool(FALSE), color |-> Str(sBlank)]),
   Obj([visible |-> Str(sA), color |-> Str(sRed)]),
   Obj([visible |-> Undef, color |-> Str(sHexUpperPadded)]),
   Obj([visible |-> Bool(TRUE), color |-> Num(5)])}

\* objects have distinct keys
StateMapInputs ==
  {Map(e) : e \in {x \in SeqsUpTo([k : StateKeyInputs, v : StateValueInputs], MaxStateEntries) :
                     \A i, j \in 1..Len(x) : i # j => x[i].k # x[j].k}}

StateInputs ==
  {Undef, Null, Num(1), Num(0), Str(sA), Bool(TRUE), Arr(<<>>),
   Arr(<<Obj([visible |-> Bool(FALSE), color |-> Str(sRed)]), Null>>)}
  \cup StateMapInputs

-----------------------------------------------------------------------------
(* The sanitizers applied to an input, then to their own output *)

SanIdle ==
  /\ sanPc = "idle"
  /\ sanIn = Undef
  /\ sanOut = Undef
  /\ sanOut2 = Undef

SanInit ==
  /\ \/ sanPc = "plot" /\ sanIn \in PlotInputs
     \/ sanPc = "link" /\ sanIn \in LinkInputs
     \/ sanPc = "states" /\ sanIn \in StateInputs
  /\ sanOut = Undef
  /\ sanOut2 = Undef

NormalizePlotTracks ==
  /\ sanPc = "plot"
  /\ sanOut' = normalizePlotTracks(sanIn)
  /\ sanPc' = "plot1"
  /\ UNCHANGED <<sanIn, sanOut2, normVars, gbVars, optVars, restVars>>

\* the sanitized tracks are persisted and fed back through the sanitizer
NormalizePlotTracksAgain ==
  /\ sanPc = "plot1"
  /\ sanOut # Thrown
  /\ sanOut2' = normalizePlotTracks(sanOut)
  /\ sanPc' = "plot2"
  /\ UNCHANGED <<sanIn, sanOut, normVars, gbVars, optVars, restVars>>

NormalizeLinkTracks ==
  /\ sanPc = "link"
  /\ sanOut' = normalizeLinkTracks(sanIn)
  /\ sanPc' = "link1"
  /\ UNCHANGED <<sanIn, sanOut2, normVars, gbVars, optVars, restVars>>

NormalizeLinkTracksAgain ==
  /\ sanPc = "link1"
  /\ sanOut # Thrown
  /\ sanOut2' = normalizeLinkTracks(sanOut)
  /\ sanPc' = "link2"
  /\ UNCHANGED <<sanIn, sanOut, normVars, gbVars, optVars, restVars>>

NormalizeFeatureStates ==
  /\ sanPc = "states"
  /\ sanOut' = normalizeFeatureStates(sanIn)
  /\ sanPc' = "states1"
  /\ UNCHANGED <<sanIn, sanOut2, normVars, gbVars, optVars, restVars>>

NormalizeFeatureStatesAgain ==
  /\ sanPc = "states1"
  /\ sanOut # Thrown
  /\ sanOut2' = normalizeFeatureStates(sanOut)
  /\ sanPc' = "states2"
  /\ UNCHANGED <<sanIn, sanOut, normVars, gbVars, optVars, restVars>>

SanNext ==
  \/ NormalizePlotTracks
  \/ NormalizePlotTracksAgain
  \/ NormalizeLinkTracks
  \/ NormalizeLinkTracksAgain
  \/ NormalizeFeatureStates
  \/ NormalizeFeatureStatesAgain

-----------------------------------------------------------------------------
(* dataset statistics: classifyFeatureType, computeDatasetStatistics *)

LowerLetters == <<"a", "b", "c", "d", "e", "f", "g", "h", "i", "j", "k", "l", "m",
                  "n", "o", "p", "q", "r", "s", "t", "u", "v", "w", "x", "y", "z">>
UpperLetters == <<"A", "B", "C", "D", "E", "F", "G", "H", "I", "J", "K", "L", "M",
                  "N", "O", "P", "Q", "R", "S", "T", "U", "V", "W", "X", "Y", "Z">>
IsUpper(c) == \E i \in 1..26 : UpperLetters[i] = c
LowerChar(c) == IF IsUpper(c) THEN LowerLetters[CHOOSE i \in 1..26 : UpperLetters[i] = c] ELSE c
\* String.prototype.toLowerCase
ToLowerCase(s) == [i \in 1..Len(s) |-> LowerChar(s[i])]

\* collation rank of a character: space, digits, letters; other characters first
CharRank(c) ==
  IF c \in Digits THEN 2 + DigitVal(c)
  ELSE IF \E i \in 1..26 : LowerLetters[i] = LowerChar(c)
       THEN 12 + (CHOOSE i \in 1..26 : LowerLetters[i] = LowerChar(c))
  ELSE IF c = " " THEN 1 ELSE 0

RECURSIVE LexLess(_, _)
\* a before b, comparing letters without regard to case
LexLess(a, b) ==
  IF b = <<>> THEN FALSE
  ELSE IF a = <<>> THEN TRUE
  ELSE IF CharRank(Head(a)) # CharRank(Head(b)) THEN CharRank(Head(a)) < CharRank(Head(b))
  ELSE LexLess(Tail(a), Tail(b))

RECURSIVE CaseLess(_, _)
\* among strings equal without regard to case: lower case first
CaseLess(a, b) ==
  IF a = <<>> \/ b = <<>> THEN FALSE
  ELSE IF Head(a) # Head(b) THEN ~IsUpper(Head(a))
  ELSE CaseLess(Tail(a), Tail(b))

\* a.localeCompare(b) < 0 for the labels of the model (letters, digits, spaces)
LocaleLess(a, b) ==
  IF ToLowerCase(a) # ToLowerCase(b) THEN LexLess(a, b) ELSE CaseLess(a, b)

FEATURE_TYPE_KEYS == <<"type", "source", "feature_type", "kind", "Type", "category">>
sFeature == <<"f", "e", "a", "t", "u", "r", "e">>

RECURSIVE ClassifyFrom(_, _)
ClassifyFrom(feature, keys) ==
  IF keys = <<>> THEN [key |-> sFeature, label |-> sFeature]
  ELSE LET rawValue == Get(feature, Head(keys)) IN
         IF rawValue.t = "str" /\ Trim(rawValue.s) # <<>>
         THEN [key |-> ToLowerCase(Trim(rawValue.s)), label |-> Trim(rawValue.s)]
         ELSE ClassifyFrom(feature, Tail(keys))

classifyFeatureType(feature) ==
  IF Falsy(feature) \/ feature.t \notin {"obj", "arr"} THEN [key |-> sFeature, label |-> sFeature]
  ELSE ClassifyFrom(feature, FEATURE_TYPE_KEYS)

RECURSIVE SortTypes(_)
\* sort((a, b) => b.count - a.count || a.label.localeCompare(b.label)) of entries
\* with distinct labels
SortTypes(S) ==
  IF S = {} THEN <<>>
  ELSE LET x == CHOOSE a \in S : \A b \in S \ {a} :
                  a.count > b.count \/ (a.count = b.count /\ LocaleLess(a.label, b.label))
       IN <<x>> \o SortTypes(S \ {x})

\* the label of the last feature seen with a key instead of the first
computeDatasetStatistics_LastLabel(features) ==
  LET classified == [i \in 1..Len(features) |-> classifyFeatureType(features[i])]
      keys == {classified[i].key : i \in 1..Len(features)}
      entry(k) ==
        [key |-> k,
         label |-> classified[SetMax({i \in 1..Len(features) : classified[i].key = k})].label,
         count |-> Cardinality({i \in 1..Len(features) : classified[i].key = k})]
  IN [totalFeatures |-> Len(features), featureTypes |-> SortTypes({entry(k) : k \in keys})]

\* the Map keeps the label of the first feature seen with a key
computeDatasetStatistics(features) ==
  LET classified == [i \in 1..Len(features) |-> classifyFeatureType(features[i])]
      keys == {classified[i].key : i \in 1..Len(features)}
      entry(k) ==
        [key |-> k,
         label |-> classified[SetMin({i \in 1..Len(features) : classified[i].key = k})].label,
         count |-> Cardinality({i \in 1..Len(features) : classified[i].key = k})]
  IN [totalFeatures |-> Len(features), featureTypes |-> SortTypes({entry(k) : k \in keys})]

-----------------------------------------------------------------------------
(* main/import/index.ts: the normalization applied to every parser result *)
(* Feature coordinates and lengths of the model are integers, so bucket    *)
(* arithmetic is exact: a point n/d is kept in lowest terms.                *)

MAX_FEATURES == 5000
TRUNCATION_WARNING == "Feature count exceeds 5000; truncated for performance."
NO_PLOT_WARNING == "No plot tracks available after normalization; viewer will render features only."

RECURSIVE Gcd(_, _)
Gcd(a, b) == IF b = 0 THEN a ELSE Gcd(b, a % b)
\* the number n/d for n >= 0, d > 0
Ratio(n, d) == LET g == Gcd(n, d) IN Frac(n \div g, d \div g)

RECURSIVE MaxOver(_, _, _)
\* the largest of f[lo..hi], at least 0: reduce((max, x) => Math.max(max, x), 0)
MaxOver(f, lo, hi) ==
  IF lo > hi THEN 0
  ELSE IF lo = hi THEN Max2(0, f[lo])
  ELSE LET mid == (lo + hi) \div 2 IN Max2(MaxOver(f, lo, mid), MaxOver(f, mid + 1, hi))

RECURSIVE SumOver(_, _, _)
SumOver(f, lo, hi) ==
  IF lo > hi THEN 0
  ELSE IF lo = hi THEN f[lo]
  ELSE LET mid == (lo + hi) \div 2 IN SumOver(f, lo, mid) + SumOver(f, mid + 1, hi)

IsNullish(v) == v.t \in {"undefined", "null"}
AnyNullish(features) == \E i \in 1..Len(features) : IsNullish(features[i])

\* Number(value) for the values of the model
NumberOf(value) ==
  CASE value.t = "num" -> value
    [] value.t = "str" -> StrToNumber(value.s)
    [] value.t = "null" -> Num(0)
    [] value.t = "bool" -> Num(IF value.b THEN 1 ELSE 0)
    [] OTHER -> NaNv

toNumber(value) ==
  IF value.t = "num" THEN value
  ELSE IF value.t = "str" THEN
    (LET parsed == StrToNumber(value.s) IN IF parsed.t = "num" THEN parsed ELSE Null)
  ELSE Null

\* record.start ?? record.begin ?? record.mapStart
StartOf(record) == Coalesce(Coalesce(Get(record, "start"), Get(record, "begin")), Get(record, "mapStart"))
\* record.stop ?? record.end ?? record.mapStop
StopOf(record) == Coalesce(Coalesce(Get(record, "stop"), Get(record, "end")), Get(record, "mapStop"))

\* the pair (start ?? stop ?? 0, stop ?? start ?? start) of two coordinates, or
\* Null when both are null
SpanOf(start, stop) ==
  IF start = Null /\ stop = Null THEN Null
  ELSE [start |-> Coalesce(start, Coalesce(stop, Num(0))).n,
        stop |-> Coalesce(stop, Coalesce(start, Num(0))).n]

\* the coordinates of a feature that is not null
RawSpan(record) == SpanOf(toNumber(StartOf(record)), toNumber(StopOf(record)))

\* Math.max(safeStart, safeStop), 0 for a feature without coordinates
ReachOf(span) == IF span = Null THEN 0 ELSE Max2(span.start, span.stop)

\* typeof NaN is 'number': a NaN length makes the result NaN
inferSequenceLength(meta, features) ==
  IF AnyNullish(features) THEN Thrown
  ELSE IF meta.totalLength.t = "nan" THEN NaNv
  ELSE Num(Max2(IF meta.totalLength.t = "num" THEN meta.totalLength.n ELSE 0,
                MaxOver([i \in 1..Len(features) |-> ReachOf(RawSpan(features[i]))],
                        1, Len(features))))

\* bucketCount times the part of [featureStart, featureStop) inside bucket index
OverlapOf(featureStart, featureStop, index, sequenceLength, bucketCount) ==
  Max2(0, Min2(featureStop * bucketCount, (index + 1) * sequenceLength)
            - Max2(featureStart * bucketCount, index * sequenceLength))

ClampedOverlap(featureStart, rawEnd, index, sequenceLength, bucketCount) ==
  OverlapOf(featureStart, Max2(featureStart, rawEnd), index, sequenceLength, bucketCount)

SpanOverlap(span, index, sequenceLength, bucketCount) ==
  IF span = Null THEN 0
  ELSE ClampedOverlap(Max2(0, Min2(span.start, span.stop)), Max2(span.start, span.stop),
                      index, sequenceLength, bucketCount)

\* bucketCount times the part of a feature inside bucket index (0-based) of a
\* sequence of sequenceLength positions
ScaledOverlap(record, index, sequenceLength, bucketCount) ==
  SpanOverlap(RawSpan(record), index, sequenceLength, bucketCount)

sGcContentName == <<"G", "C", " ", "C", "o", "n", "t", "e", "n", "t">>

\* bucketCount times the coverage of bucket index
BucketCoverage(features, index, sequenceLength, bucketCount) ==
  SumOver([k \in 1..Len(features) |->
             ScaledOverlap(features[k], index, sequenceLength, bucketCount)],
          1, Len(features))

\* { position: index * bucketSize + bucketSize / 2, value: min(1, coverage / bucketSize) }
BucketPoint(features, index, sequenceLength, bucketCount) ==
  Obj([position |-> Ratio((2 * index + 1) * sequenceLength, 2 * bucketCount),
       value |-> Ratio(Min2(BucketCoverage(features, index, sequenceLength, bucketCount),
                            sequenceLength),
                       sequenceLength)])

GcTrackOfBuckets(features, sequenceLength, bucketCount) ==
  Obj([id |-> Str(sGcContent),
       name |-> Str(sGcContentName),
       kind |-> Str(sGcContent),
       color |-> Str(getDefaultFeatureColor(0)),
       points |-> Arr([i \in 1..bucketCount |->
                         BucketPoint(features, i - 1, sequenceLength, bucketCount)]),
       visible |-> Bool(TRUE),
       baseline |-> Frac(1, 2),
       axisMin |-> Num(0),
       axisMax |-> Num(1),
       source |-> Str(sGcContent),
       thicknessRatio |-> Frac(3, 5)])

\* Null when no length can be inferred; new Array(NaN) raises a RangeError
GcTrackOfLength(features, inferred) ==
  IF inferred = Thrown \/ inferred = NaNv THEN Thrown
  ELSE IF inferred.n <= 0 THEN Null
  ELSE GcTrackOfBuckets(features, inferred.n, Max2(20, Min2(200, CeilDiv(inferred.n, 2000))))

generateGcContentPlot(meta, features) ==
  GcTrackOfLength(features, inferSequenceLength(meta, features))

\* slice(0, MAX_FEATURES) keeping one feature too few
TruncatedFeatures_OneShort(features) ==
  IF Len(features) >= MAX_FEATURES THEN SubSeq(features, 1, MAX_FEATURES - 1) ELSE features

TruncatedFeatures(features) ==
  IF Len(features) > MAX_FEATURES THEN SubSeq(features, 1, MAX_FEATURES) ELSE features

\* the truncation warning put in front of the parser's warnings
WarningsAfterTruncation_TruncationFirst(result) ==
  (IF Len(result.dataset.features) > MAX_FEATURES THEN <<TRUNCATION_WARNING>> ELSE <<>>)
    \o (IF result.warnings.t = "arr" THEN result.warnings.v ELSE <<>>)

\* result.warnings ?? [], with the truncation warning when features are cut
WarningsAfterTruncation(result) ==
  (IF result.warnings.t = "arr" THEN result.warnings.v ELSE <<>>)
    \o (IF Len(result.dataset.features) > MAX_FEATURES THEN <<TRUNCATION_WARNING>> ELSE <<>>)

\* the record count a parser declared, kept when it is not zero
RecordCountOf_KeepDeclared(meta, features) ==
  IF meta.recordCount # 0 THEN meta.recordCount ELSE Len(features)

\* dataset.meta.recordCount = dataset.features.length
RecordCountOf(meta, features) == Len(features)

\* reduce over Number(record.stop ?? record.end ?? record.mapStop)
MaxStop(features) ==
  MaxOver([i \in 1..Len(features) |->
             IF NumberOf(StopOf(features[i])).t = "num" THEN NumberOf(StopOf(features[i])).n ELSE 0],
          1, Len(features))

\* the backfill left out: the length the parser result carries is kept
LengthOrMaxStop_KeepDeclared(totalLength, maxStop) == totalLength

LengthOrMaxStop(totalLength, maxStop) == IF maxStop > 0 THEN Num(maxStop) ELSE totalLength

\* meta.totalLength after the backfill from the largest feature stop
BackfilledLength(meta, features) ==
  IF ~(Falsy(meta.totalLength) \/ (meta.totalLength.t = "num" /\ meta.totalLength.n < meta.totalLength.d))
  THEN meta.totalLength
  ELSE IF AnyNullish(features) THEN Thrown
  ELSE LengthOrMaxStop(meta.totalLength, MaxStop(features))

\* dataset.plotTracks before sanitization: the given tracks, or the synthesized one
PlotTracksOrGenerated(plotTracks, gcTrack) ==
  IF plotTracks.t = "arr" /\ Len(plotTracks.v) > 0 THEN plotTracks
  ELSE IF gcTrack = Thrown THEN Thrown
  ELSE IF gcTrack = Null THEN Arr(<<>>) ELSE Arr(<<gcTrack>>)

\* the returned result, once the sanitizers and the statistics have run
AssembledResult(meta, features, featureStates, plotTracks, linkTracks, statistics, warnings) ==
  IF Thrown \in {featureStates, plotTracks, linkTracks} THEN Thrown
  ELSE [dataset |-> [meta |-> meta,
                     features |-> features,
                     plotTracks |-> plotTracks,
                     featureStates |-> featureStates,
                     linkTracks |-> linkTracks,
                     statistics |-> statistics],
        warnings |-> IF Len(plotTracks.v) = 0 THEN Append(warnings, NO_PLOT_WARNING) ELSE warnings]

SanitizedResult(result, meta, features, plotTracks, warnings) ==
  IF plotTracks = Thrown THEN Thrown
  ELSE AssembledResult(meta, features,
                       normalizeFeatureStates(Coalesce(result.dataset.featureStates, Map(<<>>))),
                       normalizePlotTracks(plotTracks),
                       normalizeLinkTracks(Coalesce(result.dataset.linkTracks, Arr(<<>>))),
                       computeDatasetStatistics(features),
                       warnings)

ResultWithMeta(result, meta, features, warnings) ==
  IF meta.totalLength = Thrown THEN Thrown
  ELSE SanitizedResult(result, meta, features,
                       PlotTracksOrGenerated(result.dataset.plotTracks,
                                             generateGcContentPlot(meta, features)),
                       warnings)

ResultOfFeatures(result, features, warnings) ==
  ResultWithMeta(result,
                 [recordCount |-> RecordCountOf(result.dataset.meta, features),
                  totalLength |-> BackfilledLength(result.dataset.meta, features)],
                 features, warnings)

normalizeResult(result) ==
  ResultOfFeatures(result, TruncatedFeatures(result.dataset.features), WarningsAfterTruncation(result))

-----------------------------------------------------------------------------
(* Parser results handed to the normalization *)

sGeneLower == <<"g", "e", "n", "e">>
sGeneCapital == <<"G", "e", "n", "e">>
sCdsUpper == <<"C", "D", "S">>
sSeven == <<"7">>

\* features as the parsers and a JSON file can deliver them: typed and untyped
\* records, a record typed by a fallback key, a record that carries a start
\* only, a null entry and a bare number
FeatureInputs ==
  { Obj([type |-> Str(sGeneLower), start |-> Num(1), stop |-> Num(4)]),
    Obj([type |-> Str(sGeneCapital), start |-> Num(3), end |-> Num(9)]),
    Obj([type |-> Str(<<" ">>), source |-> Str(sCdsUpper), stop |-> Str(sSeven)]),
    Obj([type |-> Num(3), start |-> Num(2), stop |-> Num(2)]),
    Obj([start |-> Num(6)]),
    Null,
    Num(5) }

MaxSmallFeatures == 2
SmallFeatureLists == SeqsUpTo(FeatureInputs, MaxSmallFeatures)

\* the i-th feature of a long list
LongListFeature(i) ==
  Obj([type |-> Str(CASE i % 3 = 0 -> sGeneLower [] i % 3 = 1 -> sGeneCapital [] OTHER -> sCdsUpper),
       start |-> Num(i),
       stop |-> Num(i + (i % 4))])
LongList(n) == [i \in 1..n |-> LongListFeature(i)]
\* a long list of features that carry no coordinates
UnlocatedList(n) == [i \in 1..n |-> Obj([type |-> Str(sGeneLower)])]
\* lengths on both sides of MAX_FEATURES
LongListLengths == {MAX_FEATURES - 1, MAX_FEATURES, MAX_FEATURES + 1, MAX_FEATURES + 2}

TotalLengthInputs == {Undef, Num(0), Num(12), NaNv}
ProvidedPlotTrack == Obj([id |-> Str(sA), points |-> Arr(<<Obj([position |-> Num(1), value |-> Num(0)])>>)])
PlotTracksInputs ==
  {Undef, Arr(<<>>), Arr(<<ProvidedPlotTrack>>), Arr(<<Obj([points |-> Arr(<<Num(5)>>)])>>)}
PARSER_WARNING == "Line 3 skipped"
WarningsInputs == {Undef, Arr(<<PARSER_WARNING>>), Arr(<<TRUNCATION_WARNING>>)}

ParseResult(features, recordCount, totalLength, plotTracks, warnings) ==
  [dataset |-> [meta |-> [recordCount |-> recordCount, totalLength |-> totalLength],
                features |-> features,
                plotTracks |-> plotTracks,
                featureStates |-> Undef,
                linkTracks |-> Undef],
   warnings |-> warnings]

\* a parser sets recordCount to the number of features; a JSON file may declare
\* another count
ParseResults ==
  { ParseResult(features, recordCount, totalLength, plotTracks, warnings) :
      features \in SmallFeatureLists, recordCount \in {0, 1, 3},
      totalLength \in TotalLengthInputs, plotTracks \in PlotTracksInputs,
      warnings \in WarningsInputs }
  \cup
  UNION { { ParseResult(LongList(n), n, Undef, Undef, Arr(<<PARSER_WARNING>>)),
            ParseResult(LongList(n), 3, Num(12), Arr(<<ProvidedPlotTrack>>), Undef) } :
          n \in LongListLengths }
  \cup
  { ParseResult(UnlocatedList(MAX_FEATURES + 1), MAX_FEATURES + 1, Undef, Undef,
                Arr(<<PARSER_WARNING>>)) }

otherThanNorm == <<sanVars, gbVars, optVars, restVars>>

NormInit ==
  /\ normPc = "parsed"
  /\ normIn \in ParseResults
  /\ normOut = Undef

\* parseFile: normalizeResult(await registry.parse(request))
NormalizeResult ==
  /\ normPc = "parsed"
  /\ normOut' = normalizeResult(normIn)
  /\ normPc' = IF normOut' = Thrown THEN "threw" ELSE "done"
  /\ UNCHANGED <<normIn, otherThanNorm>>

NormNext == NormalizeResult

-----------------------------------------------------------------------------
(* genbank-parser.ts: parseLocation, parseQualifier *)

\* raw.replace(/\s+/g, '')
StripSpaces(s) == SelectSeq(s, LAMBDA c : ~IsSpace(c))

RECURSIVE DigitRunLen(_)
\* length of the run of digits that starts the string
DigitRunLen(s) == IF s # <<>> /\ Head(s) \in Digits THEN 1 + DigitRunLen(Tail(s)) ELSE 0

RECURSIVE NumberMatches(_)
\* Array.from(cleaned.matchAll(/\d+/g)).map(m => Number(m[0]))
NumberMatches(s) ==
  IF s = <<>> THEN <<>>
  ELSE LET n == DigitRunLen(s) IN
         IF n = 0 THEN NumberMatches(Tail(s))
         ELSE <<DigitsValue(SubSeq(s, 1, n))>> \o NumberMatches(SubSeq(s, n + 1, Len(s)))

RECURSIVE SegmentMatches(_)
\* cleaned.matchAll(/(\d+)\.\.(\d+)/g): leftmost, non-overlapping matches.  A match
\* cannot start inside a run of digits unless one starts at the head of the run.
SegmentMatches(s) ==
  IF s = <<>> THEN <<>>
  ELSE LET n == DigitRunLen(s)
           rest == SubSeq(s, n + 1, Len(s))
           m == IF Len(rest) >= 3 /\ rest[1] = "." /\ rest[2] = "."
                THEN DigitRunLen(SubSeq(rest, 3, Len(rest))) ELSE 0
       IN IF n = 0 THEN SegmentMatches(Tail(s))
          ELSE IF m = 0 THEN SegmentMatches(rest)
          ELSE LET a == DigitsValue(SubSeq(s, 1, n))
                   b == DigitsValue(SubSeq(rest, 3, 2 + m))
               IN <<[start |-> Min2(a, b), end |-> Max2(a, b)]>>
                    \o SegmentMatches(SubSeq(rest, 3 + m, Len(rest)))

\* s.includes(w)
Includes(s, w) == \E i \in 1..(Len(s) - Len(w) + 1) : SubSeq(s, i, i + Len(w) - 1) = w

sComplement == <<"c", "o", "m", "p", "l", "e", "m", "e", "n", "t">>

SeqRange(q) == {q[i] : i \in 1..Len(q)}

\* parseLocation taking the first and the last integer for start and stop
parseLocation_FirstAndLast(raw) ==
  LET cleaned == StripSpaces(raw)
      numberMatches == NumberMatches(cleaned)
      start == numberMatches[1]
      stop == numberMatches[Len(numberMatches)]
      segments == SegmentMatches(cleaned)
  IN IF numberMatches = <<>> THEN Null
     ELSE [t |-> "loc",
           start |-> start,
           stop |-> stop,
           strand |-> IF Includes(cleaned, sComplement) THEN -1 ELSE 1,
           segments |-> IF segments = <<>> THEN <<[start |-> start, end |-> stop]>> ELSE segments]

\* null when the expression holds no integer
parseLocation(raw) ==
  LET cleaned == StripSpaces(raw)
      numberMatches == NumberMatches(cleaned)
      start == SetMin(SeqRange(numberMatches))
      stop == SetMax(SeqRange(numberMatches))
      segments == SegmentMatches(cleaned)
  IN IF numberMatches = <<>> THEN Null
     ELSE [t |-> "loc",
           start |-> start,
           stop |-> stop,
           strand |-> IF Includes(cleaned, sComplement) THEN -1 ELSE 1,
           segments |-> IF segments = <<>> THEN <<[start |-> start, end |-> stop]>> ELSE segments]

(* Lines of a GenBank file, by the test parseFeatures applies to them:        *)
(*   [k |-> "FEATURES"]  line.startsWith('FEATURES')                          *)
(*   [k |-> "ORIGIN"]    line.startsWith('ORIGIN')                            *)
(*   [k |-> "hdr", type, loc]  a match of FEATURE_LINE                        *)
(*   [k |-> "qual", key, eq, val]  trimmed text "/key" or "/key=val"          *)
(*   [k |-> "text", s]   any other line (blank, continuation, preamble)       *)
sFEATURES == <<"F", "E", "A", "T", "U", "R", "E", "S">>
sORIGIN == <<"O", "R", "I", "G", "I", "N">>

\* line.trim()
TrimmedText(line) ==
  CASE line.k = "FEATURES" -> sFEATURES
    [] line.k = "ORIGIN" -> sORIGIN
    [] line.k = "hdr" -> line.type \o <<" ">> \o Trim(line.loc)
    [] line.k = "qual" -> <<"/">> \o line.key \o (IF line.eq THEN <<"=">> \o line.val ELSE <<>>)
    [] OTHER -> Trim(line.s)

CountQuotes(s) == Len(SelectSeq(s, LAMBDA c : c = "\""))

RECURSIVE CollapseDoubledQuotes(_)
\* s.replace(/""/g, '"')
CollapseDoubledQuotes(s) ==
  IF Len(s) < 2 THEN s
  ELSE IF s[1] = "\"" /\ s[2] = "\"" THEN <<"\"">> \o CollapseDoubledQuotes(SubSeq(s, 3, Len(s)))
  ELSE <<Head(s)>> \o CollapseDoubledQuotes(Tail(s))

\* the same, leaving the trailing quote in place
Unquote_KeepTrailingQuote(s) ==
  LET a == IF s # <<>> /\ Head(s) = "\"" THEN Tail(s) ELSE s
  IN CollapseDoubledQuotes(a)

\* .replace(/^"/, '').replace(/"$/, '').replace(/""/g, '"')
Unquote(s) ==
  LET a == IF s # <<>> /\ Head(s) = "\"" THEN Tail(s) ELSE s
      b == IF a # <<>> /\ a[Len(a)] = "\"" THEN SubSeq(a, 1, Len(a) - 1) ELSE a
  IN CollapseDoubledQuotes(b)

RECURSIVE ContinueValue(_, _, _, _)
\* the while loop of parseQualifier; nextIndex is 0-based
ContinueValue(lines, nextIndex, rawValue, quoteBalance) ==
  IF quoteBalance % 2 # 0 /\ nextIndex + 1 < Len(lines)
  THEN LET candidateTrimmed == TrimmedText(lines[nextIndex + 2]) IN
         IF candidateTrimmed # <<>> /\ Head(candidateTrimmed) = "/"
         THEN [rawValue |-> rawValue, nextIndex |-> nextIndex]
         ELSE ContinueValue(lines, nextIndex + 1, rawValue \o <<" ">> \o candidateTrimmed,
                            quoteBalance + CountQuotes(candidateTrimmed))
  ELSE [rawValue |-> rawValue, nextIndex |-> nextIndex]

\* parseQualifier(lines, index) for a line whose trimmed text starts with "/";
\* index is 0-based; value is Bool(TRUE) or a string
parseQualifier(lines, index) ==
  LET line == lines[index + 1] IN
    IF ~line.eq THEN [key |-> Trim(line.key), value |-> Bool(TRUE), nextIndex |-> index]
    ELSE LET rawValue == Trim(line.val) IN
           IF rawValue # <<>> /\ Head(rawValue) = "\""
           THEN LET c == ContinueValue(lines, index, rawValue, CountQuotes(rawValue)) IN
                  [key |-> Trim(line.key), value |-> Str(Unquote(c.rawValue)), nextIndex |-> c.nextIndex]
           ELSE [key |-> Trim(line.key), value |-> Str(rawValue), nextIndex |-> index]

-----------------------------------------------------------------------------
(* genbank-parser.ts: parseFeatures, one action per branch of its loop *)

sGene == <<"g", "e", "n", "e">>
sLocusTag == <<"l", "o", "c", "u", "s", "_", "t", "a", "g">>
sProduct == <<"p", "r", "o", "d", "u", "c", "t">>
sNote == <<"n", "o", "t", "e">>
NAME_QUALIFIERS == {sGene, sLocusTag, sProduct, sNote}

\* the object built for a header line; randomUUID() is the index of the line
NewFeature(id, type, locationRaw) ==
  LET location == parseLocation(locationRaw) IN
    IF location = Null
    THEN [id |-> id, type |-> type, start |-> Undef, stop |-> Undef, strand |-> Undef,
          location |-> Trim(locationRaw), segments |-> Undef, qualifiers |-> <<>>, name |-> Undef]
    ELSE [id |-> id, type |-> type, start |-> Num(location.start), stop |-> Num(location.stop),
          strand |-> Num(location.strand), location |-> Trim(locationRaw),
          segments |-> location.segments, qualifiers |-> <<>>, name |-> Undef]

IsLocated(feature) == feature.start.t = "num" /\ feature.stop.t = "num"

\* current.name = `${current.type} ${features.length + 1}` when it has no name
WithFallbackName(feature, features) ==
  IF Falsy(feature.name)
  THEN [feature EXCEPT !.name = Str(feature.type \o <<" ">> \o DecStr(Len(features) + 1))]
  ELSE feature

\* an assignment to current is seen through every reference to the same object
Aliased(features, feature) ==
  [i \in 1..Len(features) |-> IF features[i].id = feature.id THEN feature ELSE features[i]]

\* the finalize block shared by the header branch and the end of input
FinalizedFeatures(current, features) ==
  IF current = Null \/ ~IsLocated(current) THEN features
  ELSE LET named == WithFallbackName(current, features) IN Append(Aliased(features, named), named)

FinalizedWarnings(current, warnings) ==
  IF current # Null /\ ~IsLocated(current) THEN Append(warnings, [skipped |-> current.type])
  ELSE warnings

GbLine == gbLines[gbIndex + 1]
GbScanning == gbPc = "scan" /\ gbIndex < Len(gbLines)
otherThanGb == <<sanVars, normVars, optVars, restVars>>

\* if (!inFeatures) { if (line.startsWith('FEATURES')) inFeatures = true; continue; }
GbSkipPreamble ==
  /\ GbScanning
  /\ ~gbInFeatures
  /\ gbInFeatures' = (GbLine.k = "FEATURES")
  /\ gbIndex' = gbIndex + 1
  /\ UNCHANGED <<gbPc, gbLines, gbCurrent, gbFeatures, gbWarnings, otherThanGb>>

\* if (line.startsWith('ORIGIN')) { if (current) features.push(current); break; }
GbOrigin ==
  /\ GbScanning
  /\ gbInFeatures
  /\ GbLine.k = "ORIGIN"
  /\ gbFeatures' = IF gbCurrent # Null THEN Append(gbFeatures, gbCurrent) ELSE gbFeatures
  /\ gbPc' = "break"
  /\ UNCHANGED <<gbLines, gbIndex, gbInFeatures, gbCurrent, gbWarnings, otherThanGb>>

\* a feature header: finalize the feature in progress, start a new one
GbHeader ==
  /\ GbScanning
  /\ gbInFeatures
  /\ GbLine.k = "hdr"
  /\ gbFeatures' = FinalizedFeatures(gbCurrent, gbFeatures)
  /\ gbWarnings' = FinalizedWarnings(gbCurrent, gbWarnings)
  /\ gbCurrent' = NewFeature(gbIndex, GbLine.type, GbLine.loc)
  /\ gbIndex' = gbIndex + 1
  /\ UNCHANGED <<gbPc, gbLines, gbInFeatures, otherThanGb>>

\* no feature in progress, a blank line, or text that does not start with "/"
GbSkipLine ==
  /\ GbScanning
  /\ gbInFeatures
  /\ GbLine.k \in {"text", "FEATURES"} \/ (GbLine.k = "qual" /\ gbCurrent = Null)
  /\ gbIndex' = gbIndex + 1
  /\ UNCHANGED <<gbPc, gbLines, gbInFeatures, gbCurrent, gbFeatures, gbWarnings, otherThanGb>>

\* a qualifier line of the feature in progress
GbQualifier ==
  /\ GbScanning
  /\ gbInFeatures
  /\ GbLine.k = "qual"
  /\ gbCurrent # Null
  /\ LET q == parseQualifier(gbLines, gbIndex)
         stored == [gbCurrent EXCEPT !.qualifiers = SetEntry(@, q.key, q.value)]
         named == IF Falsy(gbCurrent.name) /\ q.value.t = "str" /\ q.key \in NAME_QUALIFIERS
                  THEN [stored EXCEPT !.name = q.value] ELSE stored
         current == IF q.key # <<>> THEN named ELSE gbCurrent
     IN /\ gbCurrent' = current
        /\ gbFeatures' = Aliased(gbFeatures, current)
        /\ gbIndex' = q.nextIndex + 1
  /\ UNCHANGED <<gbPc, gbLines, gbInFeatures, gbWarnings, otherThanGb>>

\* after the loop: if (current) { warn or name and push }; return
GbFinish ==
  /\ gbPc = "break" \/ (gbPc = "scan" /\ gbIndex >= Len(gbLines))
  /\ gbFeatures' = FinalizedFeatures(gbCurrent, gbFeatures)
  /\ gbWarnings' = FinalizedWarnings(gbCurrent, gbWarnings)
  /\ gbPc' = "done"
  /\ UNCHANGED <<gbLines, gbIndex, gbInFeatures, gbCurrent, otherThanGb>>

GbNext ==
  \/ GbSkipPreamble
  \/ GbOrigin
  \/ GbHeader
  \/ GbSkipLine
  \/ GbQualifier
  \/ GbFinish

(* Input files *)

sCDS == <<"C", "D", "S">>
sMisc == <<"m", "i", "s", "c">>
sLoc12 == <<"1", ".", ".", "2">>
sLocComplement == <<"c", "o", "m", "p", "l", "e", "m", "e", "n", "t", "(", "3", ".", ".", "4", ")">>
sLocJoin == <<"j", "o", "i", "n", "(", "7", ",", "5", ",", "9", ")">>
sLocNone == <<"c", "o", "m", "p", "l", "e", "m", "e", "n", "t", "(", "?", ")">>
sQuotedX == <<"\"", "x", "\"">>
sOpenQuote == <<"\"", "o", "n", "e">>
sCloseQuote == <<"t", "w", "o", "\"">>
sPseudo == <<"p", "s", "e", "u", "d", "o">>
\* an open value with a doubled quote inside: "a""b
sOpenDoubled == <<"\"", "a", "\"", "\"", "b">>

HeaderLines ==
  {[k |-> "hdr", type |-> sGene, loc |-> sLoc12],
   [k |-> "hdr", type |-> sCDS, loc |-> sLocComplement],
   [k |-> "hdr", type |-> sMisc, loc |-> sLocJoin],
   [k |-> "hdr", type |-> sMisc, loc |-> sLocNone]}

BodyLines ==
  HeaderLines \cup
  {[k |-> "qual", key |-> sGene, eq |-> TRUE, val |-> sQuotedX],
   [k |-> "qual", key |-> sNote, eq |-> TRUE, val |-> sOpenQuote],
   [k |-> "qual", key |-> sProduct, eq |-> TRUE, val |-> sOpenDoubled],
   [k |-> "qual", key |-> sPseudo, eq |-> FALSE, val |-> <<>>],
   [k |-> "text", s |-> <<>>],
   [k |-> "text", s |-> <<" ">> \o sCloseQuote]}

\* lines of the feature table between the FEATURES line and its end
MaxBody == 3
GbPrefixes == {<<[k |-> "FEATURES"]>>, <<[k |-> "text", s |-> <<"L", "O", "C", "U", "S">>], [k |-> "FEATURES"]>>}
GbSuffixes ==
  {<<>>, <<[k |-> "ORIGIN"]>>, <<[k |-> "ORIGIN"], [k |-> "text", s |-> <<"/", "/">>]>>}

GbInputs ==
  {<<>>, <<[k |-> "ORIGIN"], [k |-> "hdr", type |-> sGene, loc |-> sLoc12]>>}
  \cup {p \o b \o e : p \in GbPrefixes, b \in SeqsUpTo(BodyLines, MaxBody), e \in GbSuffixes}

GbInit ==
  /\ gbPc = "scan"
  /\ gbLines \in GbInputs
  /\ gbIndex = 0
  /\ gbInFeatures = FALSE
  /\ gbCurrent = Null
  /\ gbFeatures = <<>>
  /\ gbWarnings = <<>>

-----------------------------------------------------------------------------
(* parseLocation on location expressions *)

sComplement100To200 == sComplement \o <<"(", "1", "0", "0", ".", ".", "2", "0", "0", ")">>
sJoin50To150 == <<"j", "o", "i", "n", "(", "5", "0", ",", "1", "0", "0", ",", "1", "5", "0", ")">>

\* the pieces location expressions are put together from
LocationTokens ==
  {sComplement \o <<"(">>, <<"j", "o", "i", "n", "(">>, <<"5">>, <<"1", "2">>,
   <<".", ".">>, <<",">>, <<" ">>, <<"?">>}
MaxTokens == 4

RECURSIVE Flatten(_)
Flatten(parts) == IF parts = <<>> THEN <<>> ELSE Head(parts) \o Flatten(Tail(parts))

LocationInputs ==
  {Flatten(tokens) : tokens \in SeqsUpTo(LocationTokens, MaxTokens)}
  \cup {sComplement100To200, sJoin50To150, sLoc12, sLocComplement, sLocJoin, sLocNone}

LocInit ==
  /\ locPc = "ready"
  /\ locIn \in LocationInputs
  /\ locOut = Undef

\* const location = parseLocation(locationRaw)
ParseLocation ==
  /\ locPc = "ready"
  /\ locOut' = parseLocation(locIn)
  /\ locPc' = "done"
  /\ UNCHANGED <<locIn, otherThanLoc>>

LocNext == ParseLocation

-----------------------------------------------------------------------------
(* CacheManager and LargeDatasetOptimizer (performance optimizer) *)

\* new CacheManager(50) in the constructor of LargeDatasetOptimizer
OPTIMIZER_CACHE_SIZE == 50
DEFAULT_MAX_FEATURES == 1500
DEFAULT_WINDOW_SIZE == 1000
\* groupCount = Math.ceil(features.length / 500)
POSITION_GROUP_SPAN == 500

\* The cache is a Map: entries [k, v] in insertion order.  Keys are strings.
CacheHas(cache, key) == \E i \in 1..Len(cache) : cache[i].k = key
CacheValue(cache, key) == (CHOOSE e \in SeqRange(cache) : e.k = key).v

\* CacheManager.updateAccessOrder
updateAccessOrder(order, key) == Append(SelectSeq(order, LAMBDA k : k # key), key)

\* CacheManager.get: the access order after the call (the values cached here are
\* arrays, never undefined)
CacheGetOrder(cache, order, key) ==
  IF CacheHas(cache, key) THEN updateAccessOrder(order, key) ELSE order

\* CacheManager.set evicting the most recently used key instead
CacheSet_EvictNewest(cache, order, maxSize, key, value) ==
  LET evict == Len(cache) >= maxSize /\ ~CacheHas(cache, key) /\ order # <<>>
      newest == order[Len(order)]
      cache1 == IF evict THEN SelectSeq(cache, LAMBDA e : e.k # newest) ELSE cache
      order1 == IF evict THEN SubSeq(order, 1, Len(order) - 1) ELSE order
  IN [cache |-> SetEntry(cache1, key, value), order |-> updateAccessOrder(order1, key)]

\* CacheManager.set: [cache, order] after the call
CacheSet(cache, order, maxSize, key, value) ==
  LET evict == Len(cache) >= maxSize /\ ~CacheHas(cache, key) /\ order # <<>>
      cache1 == IF evict THEN SelectSeq(cache, LAMBDA e : e.k # Head(order)) ELSE cache
      order1 == IF evict THEN Tail(order) ELSE order
  IN [cache |-> SetEntry(cache1, key, value), order |-> updateAccessOrder(order1, key)]

\* options destructuring: a default applies when the option is undefined
MaxFeaturesOf(call) == IF call.maxFeatures = Undef THEN DEFAULT_MAX_FEATURES ELSE call.maxFeatures.n

\* `filter-${features.length}-${maxFeatures}-${sampleRate}-${importanceThreshold}`
FilterCacheKey(features, call) ==
  <<"f", "i", "l", "t", "e", "r", "-">> \o DecStr(Len(features)) \o <<"-">>
    \o DecStr(MaxFeaturesOf(call)) \o <<"-">> \o call.sampleRate.str \o <<"-">>
    \o DecStr(call.importanceThreshold)

\* `density-${features.length}-${totalLength}-${windowSize}`
DensityCacheKey(features, call) ==
  <<"d", "e", "n", "s", "i", "t", "y", "-">> \o DecStr(Len(features)) \o <<"-">>
    \o DecStr(call.totalLength) \o <<"-">> \o DecStr(call.windowSize)

Infinite == [t |-> "inf"]

\* Math.floor(((start + stop) / 2) / groupSize) for coordinates >= 0: a division by
\* zero gives NaN for position 0 and Infinity otherwise
GroupIndexOf(feature, groupSize) ==
  IF groupSize = 0 THEN (IF feature.start + feature.stop = 0 THEN NaNv ELSE Infinite)
  ELSE Num((feature.start + feature.stop) \div (2 * groupSize))

\* the first position of x in the sequence q
FirstAt(q, x) == SetMin({i \in 1..Len(q) : q[i] = x})

RECURSIVE PairsInOrder(_)
\* the second components of pairs <<position, element>>, by ascending position
PairsInOrder(P) ==
  IF P = {} THEN <<>>
  ELSE LET p == CHOOSE a \in P : \A b \in P : a[1] <= b[1]
       IN <<p[2]>> \o PairsInOrder(P \ {p})

\* the elements of S (all in q) ordered by their first position in q
OrderByFirst(S, q) == PairsInOrder({<<FirstAt(q, x), x>> : x \in S})

\* groupByPosition: the groups in the order of Object.values (the order in which
\* their keys were created), each holding its features in input order
groupByPosition(features, totalLength) ==
  LET groupCount == CeilDiv(Len(features), POSITION_GROUP_SPAN)
      groupSize == CeilDiv(totalLength, groupCount)
      index == [i \in 1..Len(features) |-> GroupIndexOf(features[i], groupSize)]
      keys == OrderByFirst(SeqRange(index), index)
  IN [j \in 1..Len(keys) |->
        SelectSeq(features, LAMBDA f : GroupIndexOf(f, groupSize) = keys[j])]

RECURSIVE ByLevels(_, _)
ByLevels(group, levels) ==
  IF levels = {} THEN <<>>
  ELSE LET top == SetMax(levels)
       IN SelectSeq(group, LAMBDA f : f.importance = top) \o ByLevels(group, levels \ {top})

\* group.sort((a, b) => (b.importance || 0) - (a.importance || 0)): a stable sort,
\* descending by importance (an absent importance is the importance 0)
SortByImportance(group) == ByLevels(group, {group[i].importance : i \in 1..Len(group)})

RECURSIVE Concat(_)
Concat(seqs) == IF seqs = <<>> THEN <<>> ELSE Head(seqs) \o Concat(Tail(seqs))

\* Array.prototype.slice(0, n) for n >= 0
Slice0(q, n) == SubSeq(q, 1, Min2(n, Len(q)))

\* SampleFeatures without the final sampled.slice(0, maxFeatures)
SampleFeatures_NoFinalCap(features, call) ==
  LET positionGroups == groupByPosition(features, call.totalLength)
      samplesPerGroup == CeilDiv(MaxFeaturesOf(call), Len(positionGroups))
  IN Concat([j \in 1..Len(positionGroups) |->
               Slice0(SortByImportance(positionGroups[j]),
                      Min2(samplesPerGroup,
                           CeilDiv(Len(positionGroups[j]) * call.sampleRate.num, call.sampleRate.den)))])

\* the part of filterFeaturesForRendering that runs on a cache miss
SampleFeatures(features, call) ==
  LET maxFeatures == MaxFeaturesOf(call)
      positionGroups == groupByPosition(features, call.totalLength)
      totalGroups == Len(positionGroups)
      samplesPerGroup == CeilDiv(maxFeatures, totalGroups)
      taken == [j \in 1..totalGroups |->
                  LET sorted == SortByImportance(positionGroups[j])
                      takeCount == Min2(samplesPerGroup,
                                        CeilDiv(Len(sorted) * call.sampleRate.num, call.sampleRate.den))
                  IN Slice0(sorted, takeCount)]
  IN Slice0(Concat(taken), maxFeatures)

\* the part of calculateFeatureDensity that runs on a cache miss
ComputeDensity(features, call) ==
  LET windowSize == call.windowSize
      windows == CeilDiv(call.totalLength, windowSize)
  IN [w \in 1..windows |->
        LET start == (w - 1) * windowSize
            end == Min2(start + windowSize, call.totalLength)
            count == Cardinality({j \in 1..Len(features) :
                       Min2(end, features[j].stop) - Max2(start, features[j].start) > 0})
        IN [position |-> Frac(2 * start + windowSize, 2), density |-> Frac(count, windowSize)]]

\* the caller's array after filterFeaturesForRendering: the sort acts on the arrays
\* built by groupByPosition, never on the array passed in
FeaturesAfterFilter(features, call) == features

\* the result of a call and the cache after it: [result, cache, order]
FilterOutcome(features, call, cache, order) ==
  LET key == FilterCacheKey(features, call) IN
    IF Len(features) <= MaxFeaturesOf(call)
    THEN [result |-> features, cache |-> cache, order |-> order]
    ELSE IF CacheHas(cache, key)
    THEN [result |-> CacheValue(cache, key), cache |-> cache,
          order |-> CacheGetOrder(cache, order, key)]
    ELSE LET result == SampleFeatures(features, call)
             after == CacheSet(cache, order, OPTIMIZER_CACHE_SIZE, key, result)
         IN [result |-> result, cache |-> after.cache, order |-> after.order]

DensityOutcome(features, call, cache, order) ==
  LET key == DensityCacheKey(features, call) IN
    IF CacheHas(cache, key)
    THEN [result |-> CacheValue(cache, key), cache |-> cache,
          order |-> CacheGetOrder(cache, order, key)]
    ELSE LET result == ComputeDensity(features, call)
             after == CacheSet(cache, order, OPTIMIZER_CACHE_SIZE, key, result)
         IN [result |-> result, cache |-> after.cache, order |-> after.order]

(* The feature lists a caller holds, and the calls it makes *)

SmallListA ==
  <<[id |-> <<"A", 1>>, start |-> 0, stop |-> 0, importance |-> 0],
    [id |-> <<"A", 2>>, start |-> 4, stop |-> 6, importance |-> 2],
    [id |-> <<"A", 3>>, start |-> 12, stop |-> 18, importance |-> 1]>>
SmallListB ==
  <<[id |-> <<"B", 1>>, start |-> 1, stop |-> 3, importance |-> 1],
    [id |-> <<"B", 2>>, start |-> 5, stop |-> 5, importance |-> 0],
    [id |-> <<"B", 3>>, start |-> 8, stop |-> 9, importance |-> 2]>>
SmallListC ==
  <<[id |-> <<"C", 1>>, start |-> 2, stop |-> 7, importance |-> 0],
    [id |-> <<"C", 2>>, start |-> 3, stop |-> 4, importance |-> 1]>>

\* a generated list of n features spread over [0, 3000)
GeneratedList(name, n) ==
  [i \in 1..n |-> [id |-> <<name, i>>, start |-> (i * 7) % 3000,
                   stop |-> ((i * 7) % 3000) + (i % 3), importance |-> i % 3]]

InitialLists ==
  [name \in {"A", "B", "C", "Big", "Cap"} |->
     CASE name = "A" -> SmallListA
       [] name = "B" -> SmallListB
       [] name = "C" -> SmallListC
       [] name = "Big" -> GeneratedList("Big", DEFAULT_MAX_FEATURES + 1)
       [] OTHER -> GeneratedList("Cap", DEFAULT_MAX_FEATURES)]

RateOne == [num |-> 1, den |-> 1, str |-> <<"1">>]
RateHalf == [num |-> 1, den |-> 2, str |-> <<"0", ".", "5">>]

FilterCall(list, totalLength, maxFeatures, sampleRate) ==
  [op |-> "filter", list |-> list, totalLength |-> totalLength, maxFeatures |-> maxFeatures,
   sampleRate |-> sampleRate, importanceThreshold |-> 0]

FilterCalls ==
  {FilterCall(l, t, o[1], o[2]) :
     l \in {"A", "B"}, t \in {0, 10},
     o \in {<<Undef, RateOne>>, <<Num(2), RateHalf>>, <<Num(1), RateOne>>}}
  \cup {FilterCall("C", 10, Num(2), RateOne)}
  \cup {FilterCall(l, 3000, Undef, RateOne) : l \in {"Big", "Cap"}}
  \cup {FilterCall("Big", 3000, Num(6), RateOne)}

DensityCall(list, totalLength, windowSize) ==
  [op |-> "density", list |-> list, totalLength |-> totalLength, windowSize |-> windowSize]

DensityCalls ==
  {DensityCall(l, 10, 4) : l \in {"A", "B"}}
  \cup {DensityCall("C", 0, 4), DensityCall("Big", 3000, DEFAULT_WINDOW_SIZE)}

\* calls made on one optimizer instance
MaxCalls == 2
otherThanOpt == <<sanVars, normVars, gbVars, restVars>>

OptInit ==
  /\ optLists = InitialLists
  /\ optCache = <<>>
  /\ optOrder = <<>>
  /\ optCall = Undef
  /\ optResult = Undef
  /\ optCalls = 0

FilterFeaturesForRendering ==
  /\ optCalls < MaxCalls
  /\ \E call \in FilterCalls :
       LET features == optLists[call.list]
           out == FilterOutcome(features, call, optCache, optOrder)
       IN /\ optResult' = out.result
          /\ optCache' = out.cache
          /\ optOrder' = out.order
          /\ optLists' = [optLists EXCEPT ![call.list] = FeaturesAfterFilter(features, call)]
          /\ optCall' = call
  /\ optCalls' = optCalls + 1
  /\ UNCHANGED otherThanOpt

CalculateFeatureDensity ==
  /\ optCalls < MaxCalls
  /\ \E call \in DensityCalls :
       LET out == DensityOutcome(optLists[call.list], call, optCache, optOrder)
       IN /\ optResult' = out.result
          /\ optCache' = out.cache
          /\ optOrder' = out.order
          /\ optCall' = call
  /\ optCalls' = optCalls + 1
  /\ UNCHANGED <<optLists, otherThanOpt>>

ClearCache ==
  /\ optCalls < MaxCalls
  /\ optCache' = <<>>
  /\ optOrder' = <<>>
  /\ optCall' = [op |-> "clear"]
  /\ optResult' = Undef
  /\ optCalls' = optCalls + 1
  /\ UNCHANGED <<optLists, otherThanOpt>>

OptNext ==
  \/ FilterFeaturesForRendering
  \/ CalculateFeatureDensity
  \/ ClearCache

-----------------------------------------------------------------------------
(* LargeDatasetOptimizer.stratifiedSampling: Math.random makes takeRandom return *)
(* any arrangement of count elements of its array                               *)

\* the arrays takeRandom(array, count) can return: shuffled.slice(0, count)
takeRandom(array, count) ==
  LET k == Min2(count, Len(array)) IN
    {[i \in 1..k |-> array[pick[i]]] :
       pick \in {f \in [1..k -> 1..Len(array)] : \A a, b \in 1..k : a # b => f[a] # f[b]}}

\* the stratifier of the callers of the model: the stratum an item carries
stratifier(item) == item.stratum

\* the keys of the strata Map, in insertion order
StrataKeys(data) ==
  OrderByFirst({stratifier(data[i]) : i \in 1..Len(data)},
               [i \in 1..Len(data) |-> stratifier(data[i])])

\* Math.max(1, Math.floor(proportion * targetSize)), in exact arithmetic
SampleCount(size, total, targetSize) == Max2(1, (size * targetSize) \div total)

RECURSIVE SamplesOver(_, _, _)
\* the arrays the strata.forEach loop can build in samples
SamplesOver(keys, data, targetSize) ==
  IF keys = <<>> THEN {<<>>}
  ELSE LET items == SelectSeq(data, LAMBDA item : stratifier(item) = Head(keys))
       IN {sampled \o rest :
             sampled \in takeRandom(items, SampleCount(Len(items), Len(data), targetSize)),
             rest \in SamplesOver(Tail(keys), data, targetSize)}

\* samples, reduced at random when it is longer than targetSize
ReducedSamples(samples, targetSize) ==
  IF Len(samples) > targetSize THEN takeRandom(samples, targetSize) ELSE {samples}

\* every array stratifiedSampling(data, targetSize, stratifier) can return
stratifiedSampling(data, targetSize) ==
  IF Len(data) <= targetSize THEN {data}
  ELSE UNION {ReducedSamples(samples, targetSize) :
                samples \in SamplesOver(StrataKeys(data), data, targetSize)}

\* data: items numbered in order, each carrying its stratum
DataOf(strata) == [i \in 1..Len(strata) |-> [id |-> i, stratum |-> strata[i]]]
MaxItems == 4
\* one large stratum after two single items
SkewedData == DataOf(<<"x", "y", "z", "z", "z", "z">>)
SamplingInputs ==
  {[data |-> DataOf(strata), targetSize |-> t] :
     strata \in SeqsUpTo({"x", "y", "z"}, MaxItems), t \in 1..3}
  \cup {[data |-> SkewedData, targetSize |-> 3]}

SampInit ==
  /\ sampPc = "ready"
  /\ sampIn \in SamplingInputs
  /\ sampOut = Undef

StratifiedSampling ==
  /\ sampPc = "ready"
  /\ sampOut' \in stratifiedSampling(sampIn.data, sampIn.targetSize)
  /\ sampPc' = "done"
  /\ UNCHANGED <<sampIn, otherThanSamp>>

SampNext == StratifiedSampling

-----------------------------------------------------------------------------
(* CacheManager as a class of its own: get, set and clear on one instance *)

CacheKeys == {"a", "b", "c"}
\* values a caller can store; undefined is one of them
CacheValues == {Num(1), Undef}
MaxCacheSize == 2
MaxCacheCalls == 4

\* this.cache.get(key)
CacheGet(cache, key) == IF CacheHas(cache, key) THEN CacheValue(cache, key) ELSE Undef

\* the keys of the Map
KeysOf(cache) == {cache[i].k : i \in 1..Len(cache)}

\* what the call found: the keys cached and when each was last used
CallRecord(op, key, value) ==
  [op |-> op, key |-> key, value |-> value, keysBefore |-> KeysOf(cmCache),
   usedBefore |-> cmUsed]

CmInit ==
  /\ cmMax \in 1..MaxCacheSize
  /\ cmCache = <<>>
  /\ cmOrder = <<>>
  /\ cmLast = Undef
  /\ cmCalls = 0
  /\ cmUsed = [k \in CacheKeys |-> 0]

\* get(key): a value other than undefined moves the key to the end of accessOrder
CmGet ==
  /\ cmMax > 0 /\ cmCalls < MaxCacheCalls
  /\ \E key \in CacheKeys :
       LET value == CacheGet(cmCache, key) IN
         /\ cmOrder' = IF value # Undef THEN updateAccessOrder(cmOrder, key) ELSE cmOrder
         /\ cmUsed' = IF value # Undef THEN [cmUsed EXCEPT ![key] = cmCalls + 1] ELSE cmUsed
         /\ cmLast' = CallRecord("get", key, value)
  /\ cmCalls' = cmCalls + 1
  /\ UNCHANGED <<cmMax, cmCache, otherThanCm>>

\* set(key, value)
CmSet ==
  /\ cmMax > 0 /\ cmCalls < MaxCacheCalls
  /\ \E key \in CacheKeys, value \in CacheValues :
       LET after == CacheSet(cmCache, cmOrder, cmMax, key, value) IN
         /\ cmCache' = after.cache
         /\ cmOrder' = after.order
         /\ cmUsed' = [cmUsed EXCEPT ![key] = cmCalls + 1]
         /\ cmLast' = CallRecord("set", key, value)
  /\ cmCalls' = cmCalls + 1
  /\ UNCHANGED <<cmMax, otherThanCm>>

\* clear()
CmClear ==
  /\ cmMax > 0 /\ cmCalls < MaxCacheCalls
  /\ cmCache' = <<>>
  /\ cmOrder' = <<>>
  /\ cmUsed' = [k \in CacheKeys |-> 0]
  /\ cmLast' = CallRecord("clear", "", Undef)
  /\ cmCalls' = cmCalls + 1
  /\ UNCHANGED <<cmMax, otherThanCm>>

CmNext == CmGet \/ CmSet \/ CmClear

-----------------------------------------------------------------------------
(* ParserRegistry: inferFormat, resolveParser, parse; MockParser as the fallback *)

\* EXTENSION_MAP[extension]; undefined for any other key
ExtensionFormat(extension) ==
  CASE extension = <<".", "g", "b">> -> "genbank"
    [] extension = <<".", "g", "b", "k">> -> "genbank"
    [] extension = <<".", "g", "f", "f">> -> "gff3"
    [] extension = <<".", "g", "f", "f", "3">> -> "gff3"
    [] extension = <<".", "j", "s", "o", "n">> -> "json"
    [] extension = <<".", "c", "s", "v">> -> "csv"
    [] OTHER -> ""

RECURSIVE ExtnameScan(_, _, _, _, _, _)
\* the backward loop of path.extname (posix); indexes are 0-based, i runs down
ExtnameScan(path, i, startDot, startPart, end, preDotState) ==
  IF i < 0 THEN [startDot |-> startDot, startPart |-> startPart, end |-> end, preDotState |-> preDotState]
  ELSE IF path[i + 1] = "/"
       THEN IF end # -1
            THEN [startDot |-> startDot, startPart |-> i + 1, end |-> end, preDotState |-> preDotState]
            ELSE ExtnameScan(path, i - 1, startDot, startPart, end, preDotState)
       ELSE LET end1 == IF end = -1 THEN i + 1 ELSE end IN
              IF path[i + 1] = "."
              THEN IF startDot = -1 THEN ExtnameScan(path, i - 1, i, startPart, end1, preDotState)
                   ELSE ExtnameScan(path, i - 1, startDot, startPart, end1, 1)
              ELSE ExtnameScan(path, i - 1, startDot, startPart, end1,
                               IF startDot # -1 THEN -1 ELSE preDotState)

\* extname(path) of node:path
extname(path) ==
  LET r == ExtnameScan(path, Len(path) - 1, -1, 0, -1, 0) IN
    IF \/ r.startDot = -1 \/ r.end = -1 \/ r.preDotState = 0
       \/ (r.preDotState = 1 /\ r.startDot = r.end - 1 /\ r.startDot = r.startPart + 1)
    THEN <<>>
    ELSE SubSeq(path, r.startDot + 1, r.end)

\* inferFormat resolving by the extension before it looks at the hint
inferFormat_ExtensionFirst(request) ==
  LET byExtension == ExtensionFormat(ToLowerCase(extname(request.filePath))) IN
    IF byExtension # "" THEN byExtension
    ELSE IF request.formatHint # "" THEN request.formatHint
    ELSE "json"

\* inferFormat(request); a formatHint of "" stands for an absent or empty hint
inferFormat(request) ==
  LET byExtension == ExtensionFormat(ToLowerCase(extname(request.filePath))) IN
    IF request.formatHint # "" THEN request.formatHint
    ELSE IF byExtension # "" THEN byExtension
    ELSE "json"

\* resolveParser(format): the parser registered for the format, or the fallback
resolveParser(parsers, format) == IF format \in parsers THEN format ELSE "fallback"

\* MockParser.parse(request)
MockParse(request) ==
  [parser |-> "fallback",
   format |-> IF request.formatHint # "" THEN request.formatHint ELSE "genbank",
   features |-> <<[type |-> "gene", name |-> "mockA", start |-> 100, end |-> 1200]>>,
   warnings |-> <<"mock result">>]

\* parser.parse(request) of the parser resolved; what a registered parser reads
\* from the file is left out
DispatchTo(parser, request) ==
  IF parser = "fallback" THEN MockParse(request) ELSE [parser |-> parser, format |-> parser]

\* the formats of createDefaultParserRegistry
DefaultFormats == {"genbank", "gff3", "json", "csv"}
RegistryInputs == {DefaultFormats, {"genbank"}}
\* hints of a request: none, the four formats, one that no parser is registered for
HintInputs == {""} \cup DefaultFormats \cup {"fasta"}

PathTokens == {<<"a">>, <<".">>, <<"/">>, <<"g", "b">>, <<"C", "s", "v">>}
MaxPathParts == 3
PathInputs ==
  {Flatten(tokens) : tokens \in SeqsUpTo(PathTokens, MaxPathParts)}
  \cup {<<"a", ".", "g", "b", "k">>, <<"a", ".", "G", "B", "K">>, <<"a", ".", "g", "f", "f">>,
        <<"a", ".", "G", "f", "f", "3">>, <<"a", ".", "j", "s", "o", "n">>,
        <<"a", ".", "t", "x", "t">>, <<"a", ".", "g", "b", ".", "b", "a", "k">>,
        <<"a", ".", "c", "s", "v", "/", "b">>}

RegInit ==
  /\ regPc = "ready"
  /\ regParsers \in RegistryInputs
  /\ regIn \in [filePath : PathInputs, formatHint : HintInputs]
  /\ regOut = Undef

\* parse(request)
RegistryParse ==
  /\ regPc = "ready"
  /\ regOut' = DispatchTo(resolveParser(regParsers, inferFormat(regIn)), regIn)
  /\ regPc' = "done"
  /\ UNCHANGED <<regParsers, regIn, otherThanReg>>

RegNext == RegistryParse

-----------------------------------------------------------------------------
(* gff3-parser.ts: parseAttributes, deriveName, parseMeta, Gff3AnnotationParser *)

StartsWith(s, prefix) == Len(s) >= Len(prefix) /\ SubSeq(s, 1, Len(prefix)) = prefix

RECURSIVE SplitFrom(_, _, _)
\* the pieces of s between the separators, current being the piece in progress
SplitFrom(s, IsSeparator(_), current) ==
  IF s = <<>> THEN <<current>>
  ELSE IF IsSeparator(Head(s)) THEN <<current>> \o SplitFrom(Tail(s), IsSeparator, <<>>)
  ELSE SplitFrom(Tail(s), IsSeparator, Append(current, Head(s)))

\* s.split(c) for a one-character separator
SplitOn(s, c) == SplitFrom(s, LAMBDA x : x = c, <<>>)

RECURSIVE SqueezeSpaces(_)
\* every run of white space shortened to its first character
SqueezeSpaces(s) ==
  IF Len(s) < 2 THEN s
  ELSE IF IsSpace(s[1]) /\ IsSpace(s[2]) THEN SqueezeSpaces(<<s[1]>> \o SubSeq(s, 3, Len(s)))
  ELSE <<Head(s)>> \o SqueezeSpaces(Tail(s))

\* s.split(/\s+/)
SplitSpaces(s) == SplitFrom(SqueezeSpaces(s), IsSpace, <<>>)

\* array[i] of a destructuring, undefined past the end; i is 0-based
ItemAt(array, i) == IF i < Len(array) THEN Str(array[i + 1]) ELSE Undef

HexVal(c) ==
  IF c \in Digits THEN DigitVal(c)
  ELSE CASE c \in {"a", "A"} -> 10 [] c \in {"b", "B"} -> 11 [] c \in {"c", "C"} -> 12
         [] c \in {"d", "D"} -> 13 [] c \in {"e", "E"} -> 14 [] c \in {"f", "F"} -> 15

\* the value of the escape %XX that starts s, -1 when s does not start with one
EscapedByte(s) ==
  IF Len(s) >= 3 /\ s[1] = "%" /\ s[2] \in HexChars /\ s[3] \in HexChars
  THEN 16 * HexVal(s[2]) + HexVal(s[3]) ELSE -1

\* the printable characters of ASCII, from code 32 on; the character of code 96
\* is written as an apostrophe
PrintableAscii ==
  <<" ", "!", "\"", "#", "$", "%", "&", "'", "(", ")", "*", "+", ",", "-", ".", "/",
    "0", "1", "2", "3", "4", "5", "6", "7", "8", "9", ":", ";", "<", "=", ">", "?",
    "@", "A", "B", "C", "D", "E", "F", "G", "H", "I", "J", "K", "L", "M", "N", "O",
    "P", "Q", "R", "S", "T", "U", "V", "W", "X", "Y", "Z", "[", "\\", "]", "^", "_",
    "'", "a", "b", "c", "d", "e", "f", "g", "h", "i", "j", "k", "l", "m", "n", "o",
    "p", "q", "r", "s", "t", "u", "v", "w", "x", "y", "z", "{", "|", "}", "~">>

\* the character of a code below 128; control characters keep their escape
AsciiChar(code, escape) ==
  IF code >= 32 /\ code <= 126 /\ code # 96 THEN PrintableAscii[code - 31]
  ELSE IF code = 9 THEN "\t" ELSE IF code = 10 THEN "\n" ELSE escape

\* the number of continuation bytes a UTF-8 lead byte asks for, -1 for a byte that
\* cannot lead
ContinuationBytes(byte) ==
  IF byte < 128 THEN 0
  ELSE IF byte >= 194 /\ byte <= 223 THEN 1
  ELSE IF byte >= 224 /\ byte <= 239 THEN 2
  ELSE IF byte >= 240 /\ byte <= 244 THEN 3
  ELSE -1

\* the n escapes that follow the lead byte are continuation bytes (%80..%BF)
ContinuationsFollow(s, n) ==
  /\ Len(s) >= 3 * (n + 1)
  /\ \A j \in 1..n :
       LET byte == EscapedByte(SubSeq(s, 3 * j + 1, 3 * j + 3)) IN byte >= 128 /\ byte <= 191

RECURSIVE JoinChars(_)
JoinChars(s) == IF s = <<>> THEN "" ELSE Head(s) \o JoinChars(Tail(s))

\* the string that starts with the character c and goes on with rest
Prepended(c, rest) == IF rest = Thrown THEN Thrown ELSE Str(<<c>> \o rest.s)

RECURSIVE decodeURIComponent(_)
\* decodeURIComponent(s): Thrown (URIError) for a % that does not start the escape
\* of a UTF-8 sequence; a character outside ASCII is kept as the text of its
\* escapes, in one element
decodeURIComponent(s) ==
  IF s = <<>> THEN Str(<<>>)
  ELSE IF Head(s) # "%" THEN Prepended(Head(s), decodeURIComponent(Tail(s)))
  ELSE LET byte == EscapedByte(s)
           n == IF byte = -1 THEN -1 ELSE ContinuationBytes(byte)
       IN IF n = -1 \/ ~ContinuationsFollow(s, n) THEN Thrown
          ELSE LET escape == JoinChars(SubSeq(s, 1, 3 * (n + 1))) IN
                 Prepended(IF n = 0 THEN AsciiChar(byte, escape) ELSE escape,
                           decodeURIComponent(SubSeq(s, 3 * (n + 1) + 1, Len(s))))

RECURSIVE AttributesFrom(_, _)
\* the forEach of parseAttributes over the trimmed, non-empty segments
AttributesFrom(segments, attributes) ==
  IF segments = <<>> THEN Map(attributes)
  ELSE LET parts == SplitOn(Head(segments), "=")
           key == parts[1]
           decoded == IF Len(parts) >= 2 /\ parts[2] # <<>> THEN decodeURIComponent(parts[2])
                      ELSE Str(<<>>)
       IN IF key = <<>> THEN AttributesFrom(Tail(segments), attributes)
          ELSE IF decoded = Thrown THEN Thrown
          ELSE AttributesFrom(Tail(segments), SetEntry(attributes, key, decoded))

\* parseAttributes(value): the record, as the list of its entries, or Thrown
parseAttributes(value) ==
  LET trimmed == [i \in 1..Len(SplitOn(value, ";")) |-> Trim(SplitOn(value, ";")[i])]
  IN AttributesFrom(SelectSeq(trimmed, LAMBDA segment : segment # <<>>), <<>>)

\* attributes[key], undefined when the record has no such key
AttributeOf(attributes, key) ==
  IF \E i \in 1..Len(attributes) : attributes[i].k = key
  THEN (CHOOSE e \in SeqRange(attributes) : e.k = key).v
  ELSE Undef

sName == <<"N", "a", "m", "e">>
sID == <<"I", "D">>

\* deriveName(attributes, fallback)
deriveName(attributes, fallback) ==
  Coalesce(AttributeOf(attributes, sName),
    Coalesce(AttributeOf(attributes, sID),
      Coalesce(AttributeOf(attributes, sGene),
        Coalesce(AttributeOf(attributes, sProduct), Str(fallback)))))

sSequenceRegion == <<"#", "#", "s", "e", "q", "u", "e", "n", "c", "e", "-", "r", "e", "g", "i", "o", "n">>
sSpecies == <<"#", "#", "s", "p", "e", "c", "i", "e", "s">>

\* the length a ##sequence-region line declares, undefined when it declares none
RegionLength(line) ==
  LET end == ItemAt(SplitSpaces(line), 3)
      length == IF end = Undef THEN NaNv ELSE StrToNumber(end.s)
  IN IF end # Undef /\ end.s # <<>> /\ length.t = "num" /\ length.n > 0 THEN length ELSE Undef

\* the organism a ##species line declares: undefined, a string, or Thrown
SpeciesOf(line) ==
  LET species == ItemAt(SplitSpaces(line), 1) IN
    IF species = Undef \/ species.s = <<>> THEN Undef
    ELSE decodeURIComponent(species.s)

RECURSIVE MetaFrom(_, _)
\* the loop of parseMeta over the lines still to read
MetaFrom(lines, meta) ==
  IF lines = <<>> THEN meta
  ELSE LET line == Head(lines)
           length == IF StartsWith(line, sSequenceRegion) /\ RegionLength(line) # Undef
                     THEN RegionLength(line) ELSE meta.totalLength
           organism == IF Falsy(meta.organism) /\ StartsWith(line, sSpecies) /\ SpeciesOf(line) # Undef
                       THEN SpeciesOf(line) ELSE meta.organism
           next == [meta EXCEPT !.totalLength = length, !.organism = organism]
       IN IF organism = Thrown THEN Thrown
          ELSE IF ~Falsy(length) /\ ~Falsy(organism) THEN next
          ELSE MetaFrom(Tail(lines), next)

\* parseMeta(lines)
GffParseMetaOf(lines) == MetaFrom(lines, [recordCount |-> 0, totalLength |-> Undef, organism |-> Undef])

\* the line the forEach callback stands on, trimmed, and its columns
GffTrimmed == Trim(gffLines[gffIndex + 1])
GffColumns == SplitOn(GffTrimmed, "\t")
GffScanning == gffPc = "scan" /\ gffIndex < Len(gffLines)
GffIsData == GffTrimmed # <<>> /\ Head(GffTrimmed) # "#"
GffStart == StrToNumber(GffColumns[4])
GffEnd == StrToNumber(GffColumns[5])
GffAttributes == parseAttributes(IF Len(GffColumns) >= 9 THEN GffColumns[9] ELSE <<>>)

\* scoreRaw && scoreRaw !== '.' ? Number(scoreRaw) : undefined
NumberUnlessDot(raw) == IF raw # <<>> /\ raw # <<".">> THEN StrToNumber(raw) ELSE Undef

\* the object pushed for a data line; randomUUID() is the index of the line
GffFeatureOf(columns, record, index, count) ==
  LET attributes == record.e IN
  [id |-> Coalesce(AttributeOf(attributes, sID), Num(index)),
   seqId |-> columns[1],
   source |-> columns[2],
   type |-> columns[3],
   start |-> Min2(StrToNumber(columns[4]).n, StrToNumber(columns[5]).n),
   stop |-> Max2(StrToNumber(columns[4]).n, StrToNumber(columns[5]).n),
   strand |-> IF columns[7] = <<"-">> THEN -1 ELSE 1,
   score |-> NumberUnlessDot(columns[6]),
   phase |-> NumberUnlessDot(columns[8]),
   name |-> deriveName(attributes, columns[3] \o <<" ">> \o DecStr(count + 1)),
   attributes |-> attributes]

\* const meta = parseMeta(lines); let maxEnd = meta.totalLength ?? 0
GffParseMeta ==
  /\ gffPc = "meta"
  /\ LET meta == GffParseMetaOf(gffLines) IN
       IF meta = Thrown
       THEN gffPc' = "threw" /\ UNCHANGED <<gffMeta, gffMaxEnd>>
       ELSE /\ gffPc' = "scan"
            /\ gffMeta' = meta
            /\ gffMaxEnd' = IF meta.totalLength = Undef THEN 0 ELSE meta.totalLength.n
  /\ UNCHANGED <<gffLines, gffIndex, gffFeatures, gffWarnings, otherThanGff>>

\* if (!trimmed || trimmed.startsWith('#')) return
GffSkipLine ==
  /\ GffScanning
  /\ ~GffIsData
  /\ gffIndex' = gffIndex + 1
  /\ UNCHANGED <<gffPc, gffLines, gffMeta, gffMaxEnd, gffFeatures, gffWarnings, otherThanGff>>

\* fewer than 8 columns: a warning
GffShortLine ==
  /\ GffScanning
  /\ GffIsData
  /\ Len(GffColumns) < 8
  /\ gffWarnings' = Append(gffWarnings, [line |-> gffIndex + 1, columns |-> Len(GffColumns)])
  /\ gffIndex' = gffIndex + 1
  /\ UNCHANGED <<gffPc, gffLines, gffMeta, gffMaxEnd, gffFeatures, otherThanGff>>

\* start or end is not a finite number: a warning
GffInvalidCoordinates ==
  /\ GffScanning
  /\ GffIsData
  /\ Len(GffColumns) >= 8
  /\ GffStart.t # "num" \/ GffEnd.t # "num"
  /\ gffWarnings' = Append(gffWarnings, [line |-> gffIndex + 1, columns |-> 0])
  /\ gffIndex' = gffIndex + 1
  /\ UNCHANGED <<gffPc, gffLines, gffMeta, gffMaxEnd, gffFeatures, otherThanGff>>

\* a data line with coordinates: the feature is pushed
GffFeature ==
  /\ GffScanning
  /\ GffIsData
  /\ Len(GffColumns) >= 8
  /\ GffStart.t = "num" /\ GffEnd.t = "num"
  /\ GffAttributes # Thrown
  /\ gffMaxEnd' = Max2(gffMaxEnd, Max2(GffStart.n, GffEnd.n))
  /\ gffFeatures' = Append(gffFeatures,
                           GffFeatureOf(GffColumns, GffAttributes, gffIndex, Len(gffFeatures)))
  /\ gffIndex' = gffIndex + 1
  /\ UNCHANGED <<gffPc, gffLines, gffMeta, gffWarnings, otherThanGff>>

\* decodeURIComponent throws inside parseAttributes: parse rejects
GffAttributeError ==
  /\ GffScanning
  /\ GffIsData
  /\ Len(GffColumns) >= 8
  /\ GffStart.t = "num" /\ GffEnd.t = "num"
  /\ GffAttributes = Thrown
  /\ gffPc' = "threw"
  /\ UNCHANGED <<gffLines, gffIndex, gffMeta, gffMaxEnd, gffFeatures, gffWarnings, otherThanGff>>

\* after the forEach: totalLength from maxEnd, recordCount, return
GffFinish ==
  /\ gffPc = "scan"
  /\ gffIndex >= Len(gffLines)
  /\ gffMeta' = [gffMeta EXCEPT
                   !.totalLength = IF Falsy(@) /\ gffMaxEnd > 0 THEN Num(gffMaxEnd) ELSE @,
                   !.recordCount = Len(gffFeatures)]
  /\ gffPc' = "done"
  /\ UNCHANGED <<gffLines, gffIndex, gffMaxEnd, gffFeatures, gffWarnings, otherThanGff>>

GffNext ==
  \/ GffParseMeta
  \/ GffSkipLine
  \/ GffShortLine
  \/ GffInvalidCoordinates
  \/ GffFeature
  \/ GffAttributeError
  \/ GffFinish

(* Input files *)

\* the columns of a line, tab-separated
TabJoined(columns) ==
  Flatten([i \in 1..Len(columns) |-> IF i = 1 THEN columns[i] ELSE <<"\t">> \o columns[i]])

EightColumns(start, end, strand) ==
  <<<<"c">>, <<"s">>, sGene, start, end, <<".">>, strand, <<".">>>>

sAttributesPlain == <<"I", "D", "=", "g", "1", ";", "N", "a", "m", "e", "=", "a", "%", "4", "1">>
sAttributesBroken == <<"N", "a", "m", "e", "=", "1", "0", "0", "%">>

GffLineInputs ==
  {<<>>,
   <<"#", "c">>,
   sSequenceRegion \o <<" ", "c", " ", "1", " ", "9">>,
   sSequenceRegion \o <<" ", "d", " ", "1", " ", "7">>,
   sSequenceRegion \o <<" ", "c", " ", "1", " ", "0">>,
   sSpecies \o <<" ", "a", "%", "2", "0", "b">>,
   sSpecies \o <<" ", "c">>,
   TabJoined(<<<<"c">>, <<"s">>, sGene>>),
   TabJoined(EightColumns(<<"1">>, <<"3">>, <<"+">>)),
   TabJoined(EightColumns(<<"5">>, <<"2">>, <<"-">>) \o <<sAttributesPlain>>),
   TabJoined(EightColumns(<<"x">>, <<"3">>, <<"+">>)),
   TabJoined(EightColumns(<<"1">>, <<"3">>, <<"+">>) \o <<sAttributesBroken>>)}

MaxGffLines == 3
GffInputs == SeqsUpTo(GffLineInputs, MaxGffLines)

GffInit ==
  /\ gffPc = "meta"
  /\ gffLines \in GffInputs
  /\ gffIndex = 0
  /\ gffMeta = Undef
  /\ gffMaxEnd = 0
  /\ gffFeatures = <<>>
  /\ gffWarnings = <<>>

-----------------------------------------------------------------------------
(* csv-parser: toNormalizedKey, toNumber, normalizeStrand, normalizeRow,       *)
(* parseMeta, CsvAnnotationParser.parse on the rows Papa.parse delivers         *)

\* toNormalizedKey(value)
toNormalizedKey(value) == ToLowerCase(Trim(value))

\* toNumber(value) of the CSV parser: a finite number, or undefined
CsvToNumber(value) ==
  IF value.t = "num" THEN value
  ELSE IF value.t = "str" /\ Trim(value.s) # <<>> /\ StrToNumber(value.s).t = "num"
  THEN StrToNumber(value.s)
  ELSE Undef

sMinus == <<"-">>
sPlus == <<"+">>
sOne == <<"1">>
REVERSE_WORDS ==
  {sMinus, <<"r", "e", "v", "e", "r", "s", "e">>, <<"r", "e", "v">>, <<"-", "1">>,
   <<"n", "e", "g", "a", "t", "i", "v", "e">>}

\* normalizeStrand(value) for the strings a CSV cell holds; anything that is not a
\* reverse word gives 1
normalizeStrand(value) ==
  IF value.t = "str" /\ toNormalizedKey(value.s) \in REVERSE_WORDS THEN -1 ELSE 1

RECURSIVE LoweredFrom(_, _)
\* lowered[toNormalizedKey(key)] = value over the entries of the row
LoweredFrom(entries, lowered) ==
  IF entries = <<>> THEN lowered
  ELSE LoweredFrom(Tail(entries), SetEntry(lowered, toNormalizedKey(Head(entries).k), Head(entries).v))

\* the row object Papa.parse builds: header (trimmed by transformHeader) -> cell
RowObject(header, cells) == [i \in 1..Len(header) |-> [k |-> Trim(header[i]), v |-> Str(cells[i])]]

sStart == <<"s", "t", "a", "r", "t">>
sBegin == <<"b", "e", "g", "i", "n">>
sMapStart == <<"m", "a", "p", "_", "s", "t", "a", "r", "t">>
sOffset == <<"o", "f", "f", "s", "e", "t">>
sStop == <<"s", "t", "o", "p">>
sEnd == <<"e", "n", "d">>
sMapStop == <<"m", "a", "p", "_", "s", "t", "o", "p">>
sLength == <<"l", "e", "n", "g", "t", "h">>
sType == <<"t", "y", "p", "e">>
sFeatureWord == <<"f", "e", "a", "t", "u", "r", "e">>
sCategory == <<"c", "a", "t", "e", "g", "o", "r", "y">>
sNameLower == <<"n", "a", "m", "e">>
sLabel == <<"l", "a", "b", "e", "l">>
sIdLower == <<"i", "d">>
sColor == <<"c", "o", "l", "o", "r">>
sColour == <<"c", "o", "l", "o", "u", "r">>
sHex == <<"h", "e", "x">>
sStrand == <<"s", "t", "r", "a", "n", "d">>
sDirection == <<"d", "i", "r", "e", "c", "t", "i", "o", "n">>
sOrganism == <<"o", "r", "g", "a", "n", "i", "s", "m">>
sSequenceLength == <<"s", "e", "q", "u", "e", "n", "c", "e", "_", "l", "e", "n", "g", "t", "h">>
sTotalLength == <<"t", "o", "t", "a", "l", "_", "l", "e", "n", "g", "t", "h">>

\* the keys normalizeRow deletes from the qualifiers
CONSUMED_KEYS ==
  {sStart, sBegin, sMapStart, sOffset, sStop, sEnd, sMapStop, sLength, sType, sFeatureWord,
   sCategory, sNameLower, sLabel, sIdLower, sColor, sColour, sHex}

\* the start of a row: start ?? begin ?? map_start ?? offset
RowStart(lowered) ==
  Coalesce(CsvToNumber(AttributeOf(lowered, sStart)),
    Coalesce(CsvToNumber(AttributeOf(lowered, sBegin)),
      Coalesce(CsvToNumber(AttributeOf(lowered, sMapStart)),
               CsvToNumber(AttributeOf(lowered, sOffset)))))

\* lowered.length ? Number(lowered.length) + (start ?? 0) : undefined
LengthPlusStart(length, start) ==
  IF Falsy(length) \/ (length.t = "str" /\ length.s = <<>>) THEN Undef
  ELSE IF StrToNumber(length.s).t # "num" THEN NaNv
  ELSE Num(StrToNumber(length.s).n + (IF start = Undef THEN 0 ELSE start.n))

\* the stop of a row: stop ?? end ?? map_stop ?? length + start
RowStop(lowered, start) ==
  Coalesce(CsvToNumber(AttributeOf(lowered, sStop)),
    Coalesce(CsvToNumber(AttributeOf(lowered, sEnd)),
      Coalesce(CsvToNumber(AttributeOf(lowered, sMapStop)),
               CsvToNumber(LengthPlusStart(AttributeOf(lowered, sLength), start)))))

\* the feature normalizeRow builds once a start or a stop is known; randomUUID()
\* is the index of the row
RowFeature(lowered, start, stop, index) ==
  LET safeStart == Coalesce(start, Coalesce(stop, Num(0)))
      safeStop == Coalesce(stop, Coalesce(start, safeStart))
      type == Coalesce(AttributeOf(lowered, sType),
                Coalesce(AttributeOf(lowered, sFeatureWord),
                  Coalesce(AttributeOf(lowered, sCategory), Str(sFeatureWord))))
      qualifiers == SelectSeq(lowered, LAMBDA e : e.k \notin CONSUMED_KEYS)
  IN [id |-> index,
      type |-> type,
      name |-> Coalesce(AttributeOf(lowered, sNameLower),
                 Coalesce(AttributeOf(lowered, sLabel),
                   Coalesce(AttributeOf(lowered, sIdLower),
                            Str(type.s \o <<" ">> \o DecStr(index + 1))))),
      start |-> Min2(safeStart.n, safeStop.n),
      stop |-> Max2(safeStart.n, safeStop.n),
      strand |-> normalizeStrand(Coalesce(AttributeOf(lowered, sStrand), AttributeOf(lowered, sDirection))),
      color |-> Coalesce(AttributeOf(lowered, sColor),
                  Coalesce(AttributeOf(lowered, sColour), AttributeOf(lowered, sHex))),
      qualifiers |-> IF qualifiers = <<>> THEN Undef ELSE Map(qualifiers)]

\* normalizeRow skipping a row as soon as one side is missing
normalizeRow_RequireBoth(row, index) ==
  LET lowered == LoweredFrom(row, <<>>) IN
    IF RowStart(lowered) = Undef \/ RowStop(lowered, RowStart(lowered)) = Undef
    THEN [feature |-> Null, warning |-> [row |-> index + 1]]
    ELSE [feature |-> RowFeature(lowered, RowStart(lowered), RowStop(lowered, RowStart(lowered)), index),
          warning |-> Null]

\* normalizeRow(row, index): [feature, warning], one of them null
normalizeRow(row, index) ==
  LET lowered == LoweredFrom(row, <<>>) IN
    IF RowStart(lowered) = Undef /\ RowStop(lowered, RowStart(lowered)) = Undef
    THEN [feature |-> Null, warning |-> [row |-> index + 1]]
    ELSE [feature |-> RowFeature(lowered, RowStart(lowered), RowStop(lowered, RowStart(lowered)), index),
          warning |-> Null]

\* the length a row declares for the sequence, undefined when it declares none
RowTotalLength(lowered) ==
  LET length == CsvToNumber(Coalesce(AttributeOf(lowered, sSequenceLength),
                              Coalesce(AttributeOf(lowered, sLength), AttributeOf(lowered, sTotalLength))))
  IN IF length # Undef /\ length.n > 0 THEN length ELSE Undef

RECURSIVE CsvMetaFrom(_, _)
\* the loop of parseMeta over the rows still to read
CsvMetaFrom(rows, meta) ==
  IF rows = <<>> THEN meta
  ELSE LET lowered == LoweredFrom(Head(rows), <<>>)
           organism == IF Falsy(meta.organism) /\ AttributeOf(lowered, sOrganism) # Undef
                       THEN AttributeOf(lowered, sOrganism) ELSE meta.organism
           length == IF Falsy(meta.totalLength) /\ RowTotalLength(lowered) # Undef
                     THEN RowTotalLength(lowered) ELSE meta.totalLength
           next == [meta EXCEPT !.organism = organism, !.totalLength = length]
       IN IF ~Falsy(organism) /\ ~Falsy(length) THEN next ELSE CsvMetaFrom(Tail(rows), next)

\* parseMeta(rows)
CsvParseMetaOf(rows) ==
  CsvMetaFrom(rows, [recordCount |-> Len(rows), totalLength |-> Undef, organism |-> Undef])

\* Object.keys(rows[0] ?? {}).map(toNormalizedKey)
NormalizedHeaders(header) == {toNormalizedKey(Trim(header[i])) : i \in 1..Len(header)}

\* the first of REQUIRED_COLUMNS the check throws for, "" when it throws for none
MissingRequired(headers) ==
  IF sStart \notin headers /\ sBegin \notin headers THEN "start"
  ELSE IF sStop \notin headers /\ sEnd \notin headers THEN "stop"
  ELSE ""

\* rows as Papa.parse delivers them
CsvRows == [i \in 1..Len(csvCells) |-> RowObject(csvHeader, csvCells[i])]

EMPTY_FILE_WARNING == [row |-> 0]

\* parse up to the forEach: an empty file returns at once with its warning; a
\* missing required column throws; otherwise parseMeta and maxStop
CsvOpen ==
  /\ csvPc = "parsed"
  /\ IF csvCells = <<>>
     THEN /\ csvPc' = "done"
          /\ csvMeta' = [recordCount |-> 0, totalLength |-> Undef, organism |-> Undef]
          /\ csvWarnings' = <<EMPTY_FILE_WARNING>>
          /\ UNCHANGED csvMaxStop
     ELSE IF MissingRequired(NormalizedHeaders(csvHeader)) # ""
     THEN /\ csvPc' = "threw"
          /\ UNCHANGED <<csvMeta, csvWarnings, csvMaxStop>>
     ELSE /\ csvPc' = "rows"
          /\ csvMeta' = CsvParseMetaOf(CsvRows)
          /\ csvMaxStop' = IF csvMeta'.totalLength = Undef THEN 0 ELSE csvMeta'.totalLength.n
          /\ UNCHANGED csvWarnings
  /\ UNCHANGED <<csvHeader, csvCells, csvIndex, csvFeatures, otherThanCsv>>

CsvAtRow == csvPc = "rows" /\ csvIndex < Len(csvCells)
CsvNormalized == normalizeRow(CsvRows[csvIndex + 1], csvIndex)

\* a row without start and stop: its warning is pushed
CsvRowSkipped ==
  /\ CsvAtRow
  /\ CsvNormalized.feature = Null
  /\ csvWarnings' = Append(csvWarnings, CsvNormalized.warning)
  /\ csvIndex' = csvIndex + 1
  /\ UNCHANGED <<csvPc, csvHeader, csvCells, csvMeta, csvMaxStop, csvFeatures, otherThanCsv>>

\* a row with a start or a stop: its feature is pushed
CsvRowFeature ==
  /\ CsvAtRow
  /\ CsvNormalized.feature # Null
  /\ csvMaxStop' = Max2(csvMaxStop, CsvNormalized.feature.stop)
  /\ csvFeatures' = Append(csvFeatures, CsvNormalized.feature)
  /\ csvIndex' = csvIndex + 1
  /\ UNCHANGED <<csvPc, csvHeader, csvCells, csvMeta, csvWarnings, otherThanCsv>>

\* after the forEach: totalLength from maxStop, recordCount, return
CsvFinish ==
  /\ csvPc = "rows"
  /\ csvIndex >= Len(csvCells)
  /\ csvMeta' = [csvMeta EXCEPT
                   !.totalLength = IF Falsy(@) /\ csvMaxStop > 0 THEN Num(csvMaxStop) ELSE @,
                   !.recordCount = Len(csvFeatures)]
  /\ csvPc' = "done"
  /\ UNCHANGED <<csvHeader, csvCells, csvIndex, csvMaxStop, csvFeatures, csvWarnings, otherThanCsv>>

CsvNext == CsvOpen \/ CsvRowSkipped \/ CsvRowFeature \/ CsvFinish

(* Input files: two columns, every row with a cell for each *)

HeaderInputs ==
  {<<sStart, sStop>>,
   <<<<" ", "S", "t", "a", "r", "t", " ">>, <<"S", "T", "O", "P">>>>,
   <<<<"B", "e", "g", "i", "n">>, sEnd>>,
   <<sStart, sMapStop>>,
   <<sBegin, sMapStop>>,
   <<sNameLower, sType>>,
   <<sStart, sNameLower>>,
   <<sNameLower, sStop>>,
   <<sOffset, sEnd>>,
   <<sStop, sStart>>}

RowInputs ==
  {<<<<>>, <<>>>>, <<<<"5">>, <<>>>>, <<<<>>, <<"5">>>>, <<<<"5">>, <<"2">>>>, <<<<"2">>, <<"5">>>>,
   <<<<"x">>, <<" ">>>>, <<<<"x">>, <<" ", "7", " ">>>>, <<<<"1", "0", "0">>, <<"2", "0", "0">>>>}

\* files of four columns: a name, the coordinates, and a strand or another column
WideHeaderInputs ==
  {<<sNameLower, sStart, sStop, sStrand>>,
   <<sNameLower, sStart, sStop, sGene>>,
   <<sNameLower, sStart, sStop, sColor>>}
WideRowInputs ==
  {<<<<"g", "1">>, <<"1", "0", "0">>, <<"2", "0", "0">>, <<"+">>>>,
   <<<<"g", "2">>, <<"5">>, <<>>, <<"-">>>>}

MaxCsvRows == 2

CsvInit ==
  /\ csvPc = "parsed"
  /\ \/ csvHeader \in HeaderInputs /\ csvCells \in SeqsUpTo(RowInputs, MaxCsvRows)
     \/ csvHeader \in WideHeaderInputs /\ csvCells \in SeqsUpTo(WideRowInputs, MaxCsvRows)
  /\ csvIndex = 0
  /\ csvMeta = Undef
  /\ csvMaxStop = 0
  /\ csvFeatures = <<>>
  /\ csvWarnings = <<>>

-----------------------------------------------------------------------------
(* registerImportIpc: the datasets:parse handler around parseFile and            *)
(* persistence.createDataset.  The ids and paths of the dataset are left out.    *)

MISSING_FIELDS_ERROR == "Project id and file path are required."
UNKNOWN_PARSE_ERROR == "Unknown error occurred while parsing dataset."

\* new Error(message)
ErrorOf(message) == [t |-> "error", message |-> message]

\* !payload?.projectId, checked alone
PayloadMissing_ProjectOnly(payload) ==
  IsNullish(payload) \/ Falsy(Get(payload, "projectId"))

\* !payload?.projectId || !payload?.filePath
PayloadMissing(payload) ==
  IsNullish(payload) \/ Falsy(Get(payload, "projectId")) \/ Falsy(Get(payload, "filePath"))

\* parseFile: registry.parse rejects, or normalizeResult runs on what it parsed
\* and returns or throws a TypeError
parseFile(parser) ==
  IF parser.rejects THEN ErrorOf(parser.message)
  ELSE IF normalizeResult(parser.result) = Thrown THEN ErrorOf("TypeError")
  ELSE [t |-> "result", value |-> normalizeResult(parser.result)]

\* the argument of persistence.createDataset
CreateDatasetArgument(result) ==
  [meta |-> result.dataset.meta,
   features |-> result.dataset.features,
   featureStates |-> result.dataset.featureStates,
   plotTracks |-> result.dataset.plotTracks,
   linkTracks |-> result.dataset.linkTracks,
   statistics |-> result.dataset.statistics]

\* the catch clause: error instanceof Error ? error.message : the fixed text
Caught(error) ==
  [ok |-> FALSE,
   error |-> IF error.t = "error" THEN error.message ELSE UNKNOWN_PARSE_ERROR,
   data |-> Undef]

\* the value returned after createDataset resolved with the dataset it stored
Returned(persisted, result) ==
  [ok |-> TRUE,
   error |-> "",
   data |-> [dataset |-> persisted,
             warnings |-> result.warnings,
             previewFeatures |-> SubSeq(result.dataset.features, 1,
                                        Min2(10, Len(result.dataset.features))),
             featureStates |-> persisted.featureStates,
             plotTracks |-> persisted.plotTracks,
             linkTracks |-> persisted.linkTracks,
             statistics |-> result.dataset.statistics]]


\* if (!payload?.projectId || !payload?.filePath) throw ...; caught
IpcMissingFields ==
  /\ ipcPc = "received"
  /\ PayloadMissing(ipcPayload)
  /\ ipcReply' = Caught(ErrorOf(MISSING_FIELDS_ERROR))
  /\ ipcPc' = "replied"
  /\ UNCHANGED <<ipcPayload, ipcParser, ipcPersists, ipcResult, ipcCreated, otherThanIpc>>

\* await parseFile(payload) rejects; caught
IpcParseFails ==
  /\ ipcPc = "received"
  /\ ~PayloadMissing(ipcPayload)
  /\ parseFile(ipcParser).t = "error"
  /\ ipcReply' = Caught(parseFile(ipcParser))
  /\ ipcPc' = "replied"
  /\ UNCHANGED <<ipcPayload, ipcParser, ipcPersists, ipcResult, ipcCreated, otherThanIpc>>

\* await parseFile(payload) resolves with the normalized result
IpcParseSucceeds ==
  /\ ipcPc = "received"
  /\ ~PayloadMissing(ipcPayload)
  /\ parseFile(ipcParser).t = "result"
  /\ ipcResult' = parseFile(ipcParser).value
  /\ ipcPc' = "parsed"
  /\ UNCHANGED <<ipcPayload, ipcParser, ipcPersists, ipcCreated, ipcReply, otherThanIpc>>

\* await persistence.createDataset({...}) resolves; the handler returns
IpcCreateDataset ==
  /\ ipcPc = "parsed"
  /\ ipcPersists
  /\ ipcCreated' = Append(ipcCreated, CreateDatasetArgument(ipcResult))
  /\ ipcReply' = Returned(CreateDatasetArgument(ipcResult), ipcResult)
  /\ ipcPc' = "replied"
  /\ UNCHANGED <<ipcPayload, ipcParser, ipcPersists, ipcResult, otherThanIpc>>

\* await persistence.createDataset({...}) rejects; caught
IpcCreateDatasetFails ==
  /\ ipcPc = "parsed"
  /\ ~ipcPersists
  /\ ipcCreated' = Append(ipcCreated, CreateDatasetArgument(ipcResult))
  /\ ipcReply' = Caught(ErrorOf("SQLITE_ERROR"))
  /\ ipcPc' = "replied"
  /\ UNCHANGED <<ipcPayload, ipcParser, ipcPersists, ipcResult, otherThanIpc>>

IpcNext ==
  \/ IpcMissingFields
  \/ IpcParseFails
  \/ IpcParseSucceeds
  \/ IpcCreateDataset
  \/ IpcCreateDatasetFails

-----------------------------------------------------------------------------
(* Payloads, parser behaviours and persistence behaviours *)

sProjectOne == <<"p", "1">>
sFilePath == <<"a", ".", "c", "s", "v">>
PayloadInputs ==
  { Undef, Null,
    Obj([projectId |-> Str(sProjectOne), filePath |-> Str(sFilePath)]),
    Obj([projectId |-> Str(sProjectOne), filePath |-> Str(sFilePath), formatHint |-> Str(sA)]),
    Obj([projectId |-> Str(sProjectOne)]),
    Obj([filePath |-> Str(sFilePath)]),
    Obj([projectId |-> Str(<<>>), filePath |-> Str(sFilePath)]),
    Obj([projectId |-> Str(sProjectOne), filePath |-> Str(<<>>)]) }

\* fatal failures of a parser: the file cannot be read, a CSV file has no usable
\* coordinate column, the tabular parser cannot tokenize the input
FatalMessages ==
  {"ENOENT: no such file or directory", "Missing required column", "CSV parse failed"}

Rejecting(message) == [rejects |-> TRUE, message |-> message, result |-> Undef]
Delivering(result) == [rejects |-> FALSE, message |-> "", result |-> result]

ParserBehaviours ==
  {Rejecting(message) : message \in FatalMessages}
  \cup
  { Delivering(ParseResult(features, Len(features), Undef, plotTracks, warnings)) :
      features \in {<<>>, <<LongListFeature(1)>>, <<Null>>, LongList(12)},
      plotTracks \in {Undef, Arr(<<ProvidedPlotTrack>>)},
      warnings \in {Undef, Arr(<<PARSER_WARNING>>)} }

IpcInit ==
  /\ ipcPc = "received"
  /\ ipcPayload \in PayloadInputs
  /\ ipcParser \in ParserBehaviours
  /\ ipcPersists \in BOOLEAN
  /\ ipcResult = Undef
  /\ ipcCreated = <<>>
  /\ ipcReply = Undef

-----------------------------------------------------------------------------
(* Specifications *)

NormIdle ==
  /\ normPc = "idle"
  /\ normIn = Undef
  /\ normOut = Undef

GbIdle ==
  /\ gbPc = "idle"
  /\ gbLines = <<>>
  /\ gbIndex = 0
  /\ gbInFeatures = FALSE
  /\ gbCurrent = Null
  /\ gbFeatures = <<>>
  /\ gbWarnings = <<>>

OptIdle ==
  /\ optLists = <<>>
  /\ optCache = <<>>
  /\ optOrder = <<>>
  /\ optCall = Undef
  /\ optResult = Undef
  /\ optCalls = 0

SampIdle ==
  /\ sampPc = "idle"
  /\ sampIn = Undef
  /\ sampOut = Undef

CmIdle ==
  /\ cmMax = 0
  /\ cmCache = <<>>
  /\ cmOrder = <<>>
  /\ cmLast = Undef
  /\ cmCalls = 0
  /\ cmUsed = <<>>

LocIdle ==
  /\ locPc = "idle"
  /\ locIn = <<>>
  /\ locOut = Undef

RegIdle ==
  /\ regPc = "idle"
  /\ regParsers = {}
  /\ regIn = Undef
  /\ regOut = Undef

GffIdle ==
  /\ gffPc = "idle"
  /\ gffLines = <<>>
  /\ gffIndex = 0
  /\ gffMeta = Undef
  /\ gffMaxEnd = 0
  /\ gffFeatures = <<>>
  /\ gffWarnings = <<>>

CsvIdle ==
  /\ csvPc = "idle"
  /\ csvHeader = <<>>
  /\ csvCells = <<>>
  /\ csvIndex = 0
  /\ csvMeta = Undef
  /\ csvMaxStop = 0
  /\ csvFeatures = <<>>
  /\ csvWarnings = <<>>

IpcIdle ==
  /\ ipcPc = "idle"
  /\ ipcPayload = Undef
  /\ ipcParser = Undef
  /\ ipcPersists = FALSE
  /\ ipcResult = Undef
  /\ ipcCreated = <<>>
  /\ ipcReply = Undef

RestIdle == SampIdle /\ CmIdle /\ LocIdle /\ RegIdle /\ GffIdle /\ CsvIdle /\
  /\ IpcIdle

\* the sanitizers
SanSpecInit == SanInit /\ NormIdle /\ GbIdle /\ OptIdle /\ RestIdle
SanSpec == SanSpecInit /\ [][SanNext]_vars

-----------------------------------------------------------------------------
(* Properties of the sanitizers *)

SanTwice == sanPc \in {"plot2", "link2", "states2"}

\* C6: sanitization is idempotent: whenever normalizePlotTracks,
\* normalizeLinkTracks or normalizeFeatureStates returns a value for an input,
\* applying the same sanitizer to that value returns it unchanged.
C6_SanitizeIdempotent == SanTwice => sanOut2 = sanOut

\* C6 witness: a null entry is dropped and the track after it, which has no id,
\* gets the positional id "plot-2"; the second pass sees it at index 0 and keeps it.
C6_Witness ==
  /\ sanPc = "plot2"
  /\ sanIn.t = "arr" /\ Len(sanIn.v) = 2 /\ sanIn.v[1] = Null
  /\ Get(sanIn.v[2], "id") = Undef
  /\ Len(sanOut.v) = 1
  /\ sanOut.v[1].f.id = Str(<<"p", "l", "o", "t", "-", "2">>)
  /\ sanOut2 = sanOut

TrackColorsWellFormed(out) ==
  \A i \in 1..Len(out.v) : MatchesHexColor(out.v[i].f.color.s)

\* C7 (as claimed): after sanitization every plot-track color, link-track color and
\* feature-state color matches ^#[0-9a-fA-F]{6}$, and a single link track whose
\* input color is not such a color gets the default orange.
C7_ColorsWellFormed ==
  /\ (sanPc \in {"plot1", "link1"} /\ sanOut # Thrown) => TrackColorsWellFormed(sanOut)
  /\ sanPc = "states1" =>
       \A i \in 1..Len(sanOut.e) : MatchesHexColor(sanOut.e[i].v.f.color.s)
  /\ (sanPc = "link1" /\ sanIn.t = "arr" /\ Len(sanIn.v) = 1 /\ Len(sanOut.v) = 1
        /\ ~isValidHexColor(Get(sanIn.v[1], "color")))
       => sanOut.v[1].f.color = Str(DEFAULT_LINK_COLOR)

IsNonBlankStr(v) == v.t = "str" /\ Trim(v.s) # <<>>

PlotTrackWellFormed(track) ==
  /\ track.f.kind.t = "str" /\ track.f.kind.s \in PLOT_TRACK_KINDS
  /\ track.f.visible.t = "bool"
  /\ IsNonBlankStr(track.f.id) /\ IsNonBlankStr(track.f.name)
  /\ \A j \in 1..Len(track.f.points.v) :
       /\ track.f.points.v[j].f.position.t = "num"
       /\ track.f.points.v[j].f.value.t = "num"

LinkTrackWellFormed(track) ==
  \A j \in 1..Len(track.f.connections.v) :
    \A c \in {"sourceStart", "sourceEnd", "targetStart", "targetEnd"} :
      track.f.connections.v[j].f[c].t = "num"

\* C8 (as claimed): for any input normalizePlotTracks and normalizeLinkTracks return
\* without raising; returned plot tracks have an enum kind, a boolean visible, a
\* non-blank id and name and only finite points; returned connections have four
\* finite coordinates.
C8_SanitizersNeverRaise ==
  /\ sanPc \in {"plot1", "link1"} => sanOut # Thrown
  /\ sanPc = "plot1" => \A i \in 1..Len(sanOut.v) : PlotTrackWellFormed(sanOut.v[i])
  /\ sanPc = "link1" => \A i \in 1..Len(sanOut.v) : LinkTrackWellFormed(sanOut.v[i])

-----------------------------------------------------------------------------
(* Properties of the GenBank feature scan *)

\* 0-based index of the first line with class k at or after index from, else Len
RECURSIVE FirstLineOf(_, _, _)
FirstLineOf(lines, k, from) ==
  IF from >= Len(lines) THEN Len(lines)
  ELSE IF lines[from + 1].k = k THEN from
  ELSE FirstLineOf(lines, k, from + 1)

FeaturesLine == FirstLineOf(gbLines, "FEATURES", 0)
OriginLine == FirstLineOf(gbLines, "ORIGIN", FeaturesLine + 1)

\* 0-based indexes of the header lines of the FEATURES section, in file order
SectionHeaders ==
  SelectSeq([i \in 1..Len(gbLines) |-> i - 1],
            LAMBDA x : x > FeaturesLine /\ x < OriginLine /\ gbLines[x + 1].k = "hdr")
LocatedHeaders == SelectSeq(SectionHeaders, LAMBDA x : parseLocation(gbLines[x + 1].loc) # Null)
UnlocatedHeaders == SelectSeq(SectionHeaders, LAMBDA x : parseLocation(gbLines[x + 1].loc) = Null)

\* every quoted qualifier value closes its quotes on its own line, so that no
\* line is consumed as the continuation of a value
QuotesClosed ==
  \A i \in 1..Len(gbLines) : gbLines[i].k = "qual" => CountQuotes(gbLines[i].val) % 2 = 0

\* C3 (as claimed, for files whose qualifier values close their quotes): the scan
\* emits exactly one feature per located header line of the FEATURES section, in
\* file order and none twice, whether the section ends at ORIGIN or at end of file.
C3_OneFeaturePerLocatedHeader ==
  (gbPc = "done" /\ QuotesClosed) =>
    [i \in 1..Len(gbFeatures) |-> gbFeatures[i].id] = LocatedHeaders

\* C4 (as claimed, for the GenBank parser): every emitted feature has numeric
\* start and stop with 0 <= start <= stop and strand -1 or +1.
C4_EmittedCoordinatesValid ==
  gbPc = "done" =>
    \A i \in 1..Len(gbFeatures) :
      /\ gbFeatures[i].start.t = "num" /\ gbFeatures[i].stop.t = "num"
      /\ 0 <= gbFeatures[i].start.n /\ gbFeatures[i].start.n <= gbFeatures[i].stop.n
      /\ gbFeatures[i].strand.t = "num" /\ gbFeatures[i].strand.n \in {-1, 1}

\* C5 (as claimed, for files whose qualifier values close their quotes): a feature
\* whose location holds no integer is never emitted and gets exactly one warning
\* naming its type, whatever follows it: a header, ORIGIN or the end of the file.
C5_UnlocatedDroppedWithWarning ==
  (gbPc = "done" /\ QuotesClosed) =>
    /\ \A i \in 1..Len(gbFeatures) : IsLocated(gbFeatures[i])
    /\ [i \in 1..Len(gbWarnings) |-> gbWarnings[i].skipped]
         = [i \in 1..Len(UnlocatedHeaders) |-> gbLines[UnlocatedHeaders[i] + 1].type]

\* the scan stands on a qualifier line of a feature in progress whose value opens
\* with a quote and does not close it on that line
AtOpenQuotedQualifier ==
  /\ GbScanning /\ gbInFeatures /\ gbCurrent # Null
  /\ GbLine.k = "qual" /\ GbLine.eq
  /\ GbLine.val # <<>> /\ Head(GbLine.val) = "\""
  /\ CountQuotes(GbLine.val) % 2 = 1

\* the trimmed text of the n-th line after the qualifier line
FollowingLine(n) == TrimmedText(gbLines[gbIndex + 1 + n])

\* the quotes in the value and in the n lines that follow it
QuotesThrough(n) ==
  CountQuotes(GbLine.val) + SumOver([j \in 1..n |-> CountQuotes(FollowingLine(j))], 1, n)

\* the continuation stops after n lines: the quotes balance, the file ends, or the
\* next line starts with "/"
StopsAfter(n) ==
  \/ QuotesThrough(n) % 2 = 0
  \/ gbIndex + 1 + n = Len(gbLines)
  \/ (FollowingLine(n + 1) # <<>> /\ Head(FollowingLine(n + 1)) = "/")

\* the number of lines the value continues over
ConsumedLines == SetMin({n \in 0..(Len(gbLines) - gbIndex - 1) : StopsAfter(n)})

RECURSIVE JoinedThrough(_)
\* the value followed by the n lines, each after a single space
JoinedThrough(n) ==
  IF n = 0 THEN GbLine.val ELSE JoinedThrough(n - 1) \o <<" ">> \o FollowingLine(n)

\* one leading and one trailing quote removed
WithoutOuterQuotes(s) ==
  LET from == IF s # <<>> /\ s[1] = "\"" THEN 2 ELSE 1
      to == IF Len(s) >= from /\ s[Len(s)] = "\"" THEN Len(s) - 1 ELSE Len(s)
  IN SubSeq(s, from, to)

\* the value stored under key in the qualifiers of feature, undefined when absent
QualifierOf(feature, key) ==
  IF \E i \in 1..Len(feature.qualifiers) : feature.qualifiers[i].k = key
  THEN (CHOOSE e \in SeqRange(feature.qualifiers) : e.k = key).v
  ELSE Undef

sOneTwo == <<"o", "n", "e", " ", "t", "w", "o">>
sABTwo == <<"a", "\"", "b", " ", "t", "w", "o">>

\* the step the scan takes from an open quoted qualifier
C14_Step ==
  AtOpenQuotedQualifier =>
    /\ gbIndex' = gbIndex + 1 + ConsumedLines
    /\ QualifierOf(gbCurrent', GbLine.key)
         = Str(CollapseDoubledQuotes(WithoutOuterQuotes(JoinedThrough(ConsumedLines))))
    /\ Len(gbFeatures') = Len(gbFeatures) /\ gbWarnings' = gbWarnings
    /\ gbCurrent'.id = gbCurrent.id
    /\ (gbIndex + 1 < Len(gbLines) /\ gbLines[gbIndex + 2] = [k |-> "text", s |-> <<" ">> \o sCloseQuote])
         => QualifierOf(gbCurrent', GbLine.key)
              = Str(IF GbLine.val = sOpenQuote THEN sOneTwo ELSE sABTwo)

\* C14: a qualifier value that opens with a quote and is not closed on its line
\* is continued with the following lines, trimmed and joined by single spaces,
\* until the quotes balance or the next line starts with "/" (or the file ends);
\* one leading and one trailing quote are removed and doubled quotes collapsed;
\* the scan resumes after the consumed lines, which start no feature and no
\* qualifier; /note="line one followed by line two" gives line one line two.
C14_MultiLineQualifier == [][C14_Step]_vars

\* the note of the feature in progress was continued over the next line
C14_Witness ==
  /\ gbCurrent # Null
  /\ QualifierOf(gbCurrent, sNote) = Str(sOneTwo)
  /\ gbIndex >= 2 /\ gbLines[gbIndex] = [k |-> "text", s |-> <<" ">> \o sCloseQuote]

\* the lines a step of the scan passes over without standing on them (1-based)
PassedOver == (gbIndex + 2)..gbIndex'

\* C24: in the feature scan no line at or after the first ORIGIN line that
\* follows FEATURES affects the features, and every header line between FEATURES
\* and that ORIGIN line starts a new feature: no step of the scan takes a header
\* line or the ORIGIN line into the value of a preceding qualifier, whatever the
\* quote balance of that qualifier.
C24_HeadersAndOriginNeverAbsorbed ==
  [][\A i \in PassedOver : gbLines[i].k \notin {"hdr", "ORIGIN"}]_vars

\* a qualifier that can give a feature its name: a non-empty string under gene,
\* locus_tag, product or note
IsNaming(entry) ==
  entry.k \in NAME_QUALIFIERS /\ entry.v.t = "str" /\ entry.v.s # <<>>
HasName(feature) == feature.name.t = "str" /\ feature.name.s # <<>>

\* a qualifier line read for the feature in progress: the first naming qualifier
\* gives the name, later ones leave it alone
C25_NameStep ==
  (GbScanning /\ gbInFeatures /\ GbLine.k = "qual" /\ gbCurrent # Null) =>
    LET key == Trim(GbLine.key)
        read == [k |-> key, v |-> QualifierOf(gbCurrent', key)]
    IN gbCurrent'.name =
         IF ~HasName(gbCurrent) /\ IsNaming(read) THEN read.v ELSE gbCurrent.name

\* every emitted feature has a name; one without a naming qualifier is called
\* by its type and its 1-based position in the emitted list
C25_NamedOnceEmitted ==
  gbPc = "done" =>
    \A k \in 1..Len(gbFeatures) :
      /\ HasName(gbFeatures[k])
      /\ (\A i \in 1..Len(gbFeatures[k].qualifiers) : ~IsNaming(gbFeatures[k].qualifiers[i]))
           => gbFeatures[k].name = Str(gbFeatures[k].type \o <<" ">> \o DecStr(k))

\* C25: the name of each emitted feature is the first non-empty string among its
\* gene, locus_tag, product and note qualifiers, in the order of the file; when it
\* has none its name is its type followed by its 1-based position in the emitted
\* list, whether it is finalized by a following header, by ORIGIN or by the end
\* of the file.
C25_NameFromQualifiersOrOrdinal ==
  []C25_NamedOnceEmitted /\ [][C25_NameStep]_vars

\* the GenBank feature scan
GbSpecInit == GbInit /\ SanIdle /\ NormIdle /\ OptIdle /\ RestIdle
GbSpec == GbSpecInit /\ [][GbNext]_vars

-----------------------------------------------------------------------------
(* Properties of the optimizer *)

\* what a fresh LargeDatasetOptimizer returns for the last call
FreshResult ==
  IF optCall.op = "filter"
  THEN FilterOutcome(InitialLists[optCall.list], optCall, <<>>, <<>>).result
  ELSE DensityOutcome(InitialLists[optCall.list], optCall, <<>>, <<>>).result

\* C9 (as claimed): filterFeaturesForRendering and calculateFeatureDensity are pure:
\* every call on an instance returns what a fresh instance computes for the same
\* arguments, and a filter call returns only features of the list passed to it.
C9_CallsArePure ==
  (optCall # Undef /\ optCall.op \in {"filter", "density"}) =>
    /\ optResult = FreshResult
    /\ optCall.op = "filter" =>
         \A i \in 1..Len(optResult) : optResult[i] \in SeqRange(optLists[optCall.list])

\* maxFeatures as the caller of the last call stated it
RequestedMaxFeatures ==
  IF optCall.maxFeatures = Undef THEN DEFAULT_MAX_FEATURES ELSE optCall.maxFeatures.n

\* C10: filterFeaturesForRendering returns its input list unchanged when it has at
\* most maxFeatures (default 1500) features, otherwise at most maxFeatures
\* features, and it never modifies the lists of its callers.
C10_FilterBounded ==
  (optCall # Undef /\ optCall.op = "filter") =>
    /\ Len(InitialLists[optCall.list]) <= RequestedMaxFeatures
         => optResult = InitialLists[optCall.list]
    /\ Len(InitialLists[optCall.list]) > RequestedMaxFeatures
         => Len(optResult) <= RequestedMaxFeatures
    /\ optLists = InitialLists

\* C10 witness: the second call on an instance filters a list of 1501 features
\* with the default maxFeatures and returns fewer of them, the list left as it was.
C10_Witness ==
  /\ optCall # Undef /\ optCall.op = "filter"
  /\ optCall.list = "Big" /\ optCall.maxFeatures = Undef
  /\ optCalls = 2
  /\ Len(optResult) > 0 /\ Len(optResult) <= DEFAULT_MAX_FEATURES
  /\ optResult # optLists["Big"]
  /\ optLists = InitialLists

\* the list passed to the last call, as the caller built it
CalledList == InitialLists[optCall.list]
\* width of the position buckets: ceil(totalLength / ceil(n / 500))
BucketWidth == CeilDiv(optCall.totalLength, CeilDiv(Len(CalledList), 500))
\* the bucket of a feature: its midpoint (start + stop) / 2 over the bucket width
BucketOf(feature) == (feature.start + feature.stop) \div (2 * BucketWidth)
\* the first call on an instance (nothing cached) filters a list longer than
\* maxFeatures whose midpoints all lie inside [0, totalLength]
FirstFilterOfLongList ==
  /\ optCalls = 1 /\ optCall.op = "filter"
  /\ Len(CalledList) > RequestedMaxFeatures
  /\ optCall.totalLength > 0
  /\ \A i \in 1..Len(CalledList) :
       CalledList[i].start + CalledList[i].stop <= 2 * optCall.totalLength

\* C11 (as claimed): when features.length > maxFeatures, every position bucket
\* that holds a feature of the input holds a feature of the result of
\* filterFeaturesForRendering, also after the final cap at maxFeatures.
C11_EveryBucketRepresented ==
  FirstFilterOfLongList =>
    \A i \in 1..Len(CalledList) :
      \E j \in 1..Len(optResult) : BucketOf(optResult[j]) = BucketOf(CalledList[i])

\* the first call on an instance (nothing cached) filters a list longer than
\* maxFeatures over a sequence of positive length
FirstFilterOverLength ==
  /\ optCalls = 1 /\ optCall.op = "filter"
  /\ Len(CalledList) > RequestedMaxFeatures
  /\ optCall.totalLength > 0
\* ceil(samplesPerGroup * sampleRate), samplesPerGroup = ceil(maxFeatures / groupCount)
\* and groupCount = ceil(features.length / 500)
BucketQuota ==
  CeilDiv(CeilDiv(RequestedMaxFeatures, CeilDiv(Len(CalledList), 500)) * optCall.sampleRate.num,
          optCall.sampleRate.den)
InBucket(list, bucket) == SelectSeq(list, LAMBDA f : BucketOf(f) = bucket)

\* C26: when features.length > maxFeatures, filterFeaturesForRendering takes
\* from each position bucket its ceil(samplesPerGroup * sampleRate) most
\* important features, or the whole bucket when it is smaller: the number taken
\* from a bucket follows sampleRate, and no feature left out of a bucket is
\* strictly more important than one taken from it.
C26_QuotaOfMostImportantPerBucket ==
  FirstFilterOverLength =>
    \A i \in 1..Len(CalledList) :
      LET members == InBucket(CalledList, BucketOf(CalledList[i]))
          taken == InBucket(optResult, BucketOf(CalledList[i]))
      IN /\ Len(taken) = Min2(BucketQuota, Len(members))
         /\ \A f \in SeqRange(members) \ SeqRange(taken) :
              \A g \in SeqRange(taken) : f.importance <= g.importance

\* the first call on an instance (nothing cached) asks for the density
FirstDensityCall == optCalls = 1 /\ optCall.op = "density"
WindowStart(w) == (w - 1) * optCall.windowSize
WindowEnd(w) == Min2(WindowStart(w) + optCall.windowSize, optCall.totalLength)
\* the inclusive interval [start, stop] of the feature meets window w
Intersects(feature, w) == feature.start < WindowEnd(w) /\ feature.stop >= WindowStart(w)

\* C27: calculateFeatureDensity returns ceil(totalLength / windowSize) windows
\* over [0, totalLength); the density of a window is the number of features whose
\* inclusive interval [start, stop] meets the window, divided by the width of
\* that window, also for a shorter last window; so every feature with
\* 0 <= start <= stop < totalLength, a single-position feature included, is
\* counted in a window.
C27_DensityCountsIntersections ==
  FirstDensityCall =>
    /\ Len(optResult) = CeilDiv(optCall.totalLength, optCall.windowSize)
    /\ \A w \in 1..Len(optResult) :
         optResult[w].density.n * (WindowEnd(w) - WindowStart(w))
           = optResult[w].density.d
               * Cardinality({j \in 1..Len(CalledList) : Intersects(CalledList[j], w)})
    /\ \A j \in 1..Len(CalledList) :
         (0 <= CalledList[j].start /\ CalledList[j].start <= CalledList[j].stop
            /\ CalledList[j].stop < optCall.totalLength)
           => \E w \in 1..Len(optResult) :
                Intersects(CalledList[j], w) /\ optResult[w].density.n > 0

\* one LargeDatasetOptimizer instance and its callers
OptSpecInit == OptInit /\ SanIdle /\ NormIdle /\ GbIdle /\ RestIdle
OptSpec == OptSpecInit /\ [][OptNext]_vars

-----------------------------------------------------------------------------
(* Properties of the normalization *)

\* the normalization of every parser result
NormSpecInit == NormInit /\ SanIdle /\ GbIdle /\ OptIdle /\ RestIdle
NormSpec == NormSpecInit /\ [][NormNext]_vars

NormDone == normPc = "done"
InputFeatures == normIn.dataset.features
InputWarnings == IF normIn.warnings.t = "arr" THEN normIn.warnings.v ELSE <<>>
OutputFeatures == normOut.dataset.features
TruncationWarnings(warnings) == Cardinality({i \in 1..Len(warnings) : warnings[i] = TRUNCATION_WARNING})

\* C1: a normalization that returns gives back the first min(N, 5000) of the N
\* input features, in order and unmodified; for N > 5000 that is exactly 5000
\* features, meta.recordCount is 5000 and one truncation warning has been added
\* to the parser's warnings; for N <= 5000 every feature is kept and no
\* truncation warning is added.
C1_TruncatesToFirstMaxFeatures ==
  NormDone =>
    LET n == Len(InputFeatures)
        kept == Min2(n, 5000)
    IN /\ Len(OutputFeatures) = kept
       /\ \A i \in 1..kept : OutputFeatures[i] = InputFeatures[i]
       /\ n > 5000 =>
            /\ normOut.dataset.meta.recordCount = 5000
            /\ TruncationWarnings(normOut.warnings) = TruncationWarnings(InputWarnings) + 1
       /\ n <= 5000 =>
            /\ OutputFeatures = InputFeatures
            /\ TruncationWarnings(normOut.warnings) = TruncationWarnings(InputWarnings)

\* a list of 5001 features has been cut to its first 5000 and the warning added
C1_Witness ==
  /\ NormDone
  /\ Len(InputFeatures) = 5001
  /\ Len(OutputFeatures) = 5000
  /\ OutputFeatures[5000] = InputFeatures[5000]
  /\ TRUNCATION_WARNING \in {normOut.warnings[i] : i \in 1..Len(normOut.warnings)}

RECURSIVE SumCounts(_)
SumCounts(featureTypes) ==
  IF featureTypes = <<>> THEN 0 ELSE Head(featureTypes).count + SumCounts(Tail(featureTypes))

\* C2: after a normalization that returns, meta.recordCount, features.length,
\* statistics.totalFeatures and the sum of the counts of statistics.featureTypes
\* are the same number, whatever record count the parser result declared.
C2_CountsAgree ==
  NormDone =>
    /\ normOut.dataset.meta.recordCount = Len(OutputFeatures)
    /\ normOut.dataset.statistics.totalFeatures = Len(OutputFeatures)
    /\ SumCounts(normOut.dataset.statistics.featureTypes) = Len(OutputFeatures)

\* a result declaring 3 records for two features of different types has been
\* normalized to a count of 2
C2_Witness ==
  /\ NormDone
  /\ normIn.dataset.meta.recordCount = 3
  /\ Len(OutputFeatures) = 2
  /\ Len(normOut.dataset.statistics.featureTypes) = 2
  /\ normOut.dataset.meta.recordCount = 2

\* the features of the result that carry a number as their stop
HasStop(feature) == NumberOf(StopOf(feature)).t = "num"
StopValue(feature) == NumberOf(StopOf(feature)).n

NoPlotTracksGiven ==
  ~(normIn.dataset.plotTracks.t = "arr" /\ Len(normIn.dataset.plotTracks.v) > 0)
AbsentOrNotPositive(totalLength) ==
  \/ totalLength \in {Undef, Null}
  \/ totalLength.t = "num" /\ totalLength.n <= 0
WarningSet(warnings) == {warnings[i] : i \in 1..Len(warnings)}

\* C21: after the normalization of a dataset that carried no plot tracks, when
\* the resulting meta.totalLength is absent or <= 0 plotTracks is empty and the
\* warnings contain the features-only warning; otherwise plotTracks holds exactly
\* one synthesized track of kind gc-content and that warning is not added.
C21_TrackOrWarningByTotalLength ==
  (NormDone /\ NoPlotTracksGiven) =>
    IF AbsentOrNotPositive(normOut.dataset.meta.totalLength)
    THEN /\ normOut.dataset.plotTracks.v = <<>>
         /\ NO_PLOT_WARNING \in WarningSet(normOut.warnings)
    ELSE /\ Len(normOut.dataset.plotTracks.v) = 1
         /\ normOut.dataset.plotTracks.v[1].f.kind = Str(sGcContent)
         /\ NO_PLOT_WARNING \notin WarningSet(normOut.warnings)

\* the warnings the pipeline adds to those of the parser
PipelineWarnings ==
  (IF Len(InputFeatures) > MAX_FEATURES THEN <<TRUNCATION_WARNING>> ELSE <<>>)
    \o (IF Len(normOut.dataset.plotTracks.v) = 0 THEN <<NO_PLOT_WARNING>> ELSE <<>>)

\* C22: normalizeResult does not raise for truncation or for a missing plot
\* track (it raises only on a null feature, a NaN length or malformed plot tracks
\* of the parser result), and the warnings it returns are the parser's warnings
\* (none when the list is absent), unchanged and in order, followed only by the
\* pipeline's own: the truncation warning, if any, before the no-plot-track
\* warning, if any.
C22_WarningsAppendedNotRaised ==
  /\ normPc = "threw" =>
        \/ AnyNullish(InputFeatures)
        \/ normIn.dataset.meta.totalLength = NaNv
        \/ ~NoPlotTracksGiven
  /\ NormDone => normOut.warnings = InputWarnings \o PipelineWarnings

\* a list of 5001 features without coordinates and without plot tracks came
\* back with the parser's warning, then the truncation warning, then the
\* no-plot-track warning
C22_Witness ==
  /\ NormDone
  /\ Len(InputFeatures) = MAX_FEATURES + 1
  /\ normOut.warnings = <<PARSER_WARNING, TRUNCATION_WARNING, NO_PLOT_WARNING>>

\* the fields of a feature that can name its type, in the order they are read,
\* kept when they hold a string that is not blank
TypeFields(feature) ==
  SelectSeq(<<"type", "source", "feature_type", "kind", "Type", "category">>,
            LAMBDA field : /\ feature.t = "obj"
                           /\ field \in DOMAIN feature.f
                           /\ feature.f[field].t = "str"
                           /\ \E i \in 1..Len(feature.f[field].s) : feature.f[field].s[i] # " ")
\* the type of a feature as written, without the spaces around it
TypeLabel(feature) ==
  IF TypeFields(feature) = <<>> THEN <<"f", "e", "a", "t", "u", "r", "e">>
  ELSE Trim(feature.f[TypeFields(feature)[1]].s)
TypeKey(feature) == ToLowerCase(TypeLabel(feature))
\* the positions of the features of the result that have the type key
FeaturesOfType(key) == {i \in 1..Len(OutputFeatures) : TypeKey(OutputFeatures[i]) = key}

\* C30: the statistics hold exactly one featureTypes entry per distinct
\* lower-cased type key, the type of a feature being the first non-blank string
\* among its fields type, source, feature_type, kind, Type, category, else
\* "feature"; the label of an entry is the type as the first feature with that
\* key wrote it, its count the number of those features, and the entries are
\* ordered by count descending, then by label ascending.
C30_OneEntryPerTypeKey ==
  NormDone =>
    LET featureTypes == normOut.dataset.statistics.featureTypes IN
      /\ {featureTypes[e].key : e \in 1..Len(featureTypes)}
           = {TypeKey(OutputFeatures[i]) : i \in 1..Len(OutputFeatures)}
      /\ \A d, e \in 1..Len(featureTypes) : featureTypes[d].key = featureTypes[e].key => d = e
      /\ \A e \in 1..Len(featureTypes) :
           /\ featureTypes[e].count = Cardinality(FeaturesOfType(featureTypes[e].key))
           /\ featureTypes[e].label
                = TypeLabel(OutputFeatures[SetMin(FeaturesOfType(featureTypes[e].key))])
      /\ \A d, e \in 1..Len(featureTypes) :
           d < e =>
             \/ featureTypes[d].count > featureTypes[e].count
             \/ /\ featureTypes[d].count = featureTypes[e].count
                /\ LocaleLess(featureTypes[d].label, featureTypes[e].label)

\* a Gene followed by a gene gave one entry, labelled as the first wrote it
C30_Witness ==
  /\ NormDone
  /\ Len(InputFeatures) = 2
  /\ TypeLabel(InputFeatures[1]) = sGeneCapital
  /\ TypeLabel(InputFeatures[2]) = sGeneLower
  /\ normOut.dataset.statistics.featureTypes
       = <<[key |-> sGeneLower, label |-> sGeneCapital, count |-> 2]>>

-----------------------------------------------------------------------------
(* Properties of stratifiedSampling *)

\* one stratifiedSampling call and its random outcome
SampSpecInit ==
  SampInit /\ SanIdle /\ NormIdle /\ GbIdle /\ OptIdle
    /\ CmIdle /\ LocIdle /\ RegIdle /\ GffIdle /\ CsvIdle /\ IpcIdle
SampSpec == SampSpecInit /\ [][SampNext]_vars

StrataIn(items) == {items[i].stratum : i \in 1..Len(items)}

\* C12 (as claimed, for data with no more strata than targetSize): when
\* data.length > targetSize, every stratum of the input has an item in the output
\* of stratifiedSampling, whatever the random choices, also when the final random
\* reduction to targetSize is applied.
C12_EveryStratumSampled ==
  (sampPc = "done" /\ Len(sampIn.data) > sampIn.targetSize
     /\ Cardinality(StrataIn(sampIn.data)) <= sampIn.targetSize)
    => StrataIn(sampOut) = StrataIn(sampIn.data)

-----------------------------------------------------------------------------
(* Properties of CacheManager *)

\* get, set and clear calls on one CacheManager
CmSpecInit ==
  CmInit /\ SanIdle /\ NormIdle /\ GbIdle /\ OptIdle
    /\ SampIdle /\ LocIdle /\ RegIdle /\ GffIdle /\ CsvIdle /\ IpcIdle
CmSpec == CmSpecInit /\ [][CmNext]_vars

\* the last call was a set of a key not cached, on a full cache
SetOfNewKeyAtCapacity ==
  /\ cmLast # Undef
  /\ cmLast.op = "set"
  /\ cmLast.key \notin cmLast.keysBefore
  /\ Cardinality(cmLast.keysBefore) = cmMax

\* the keys the last call removed from the cache
EvictedKeys == cmLast.keysBefore \ KeysOf(cmCache)

\* C13: a CacheManager never holds more than maxSize entries; a set of a new key
\* on a full cache evicts exactly one entry, the one whose last use (a get that
\* returned a value, or a set) is the oldest; accessOrder holds exactly the cached
\* keys, each once.
C13_LruWithinCapacity ==
  cmMax > 0 =>
    /\ Len(cmCache) <= cmMax
    /\ Cardinality(KeysOf(cmCache)) = Len(cmCache)
    /\ {cmOrder[i] : i \in 1..Len(cmOrder)} = KeysOf(cmCache)
    /\ Len(cmOrder) = Len(cmCache)
    /\ SetOfNewKeyAtCapacity =>
         /\ Cardinality(EvictedKeys) = 1
         /\ \A k \in EvictedKeys : \A other \in cmLast.keysBefore :
              cmLast.usedBefore[k] <= cmLast.usedBefore[other]
         /\ cmLast.key \in KeysOf(cmCache)

\* a full cache of two entries evicted the entry set second, the first one having
\* been read since
C13_Witness ==
  /\ cmMax = 2
  /\ SetOfNewKeyAtCapacity
  /\ \E k \in EvictedKeys : \E other \in cmLast.keysBefore :
       /\ other # k
       /\ cmLast.usedBefore[k] < cmLast.usedBefore[other]
       /\ cmLast.usedBefore[other] = 3

-----------------------------------------------------------------------------
(* Properties of parseLocation *)

\* one parseLocation call
LocSpecInit ==
  LocInit /\ SanIdle /\ NormIdle /\ GbIdle /\ OptIdle
    /\ SampIdle /\ CmIdle /\ RegIdle /\ GffIdle /\ CsvIdle /\ IpcIdle
LocSpec == LocSpecInit /\ [][LocNext]_vars

\* the expression as the parser reads it, its white space removed
LocText == SelectSeq(locIn, LAMBDA c : c \notin {" ", "\t"})

\* the integers occurring in the expression: the values of its maximal runs of digits
IntegersIn(text) ==
  {DigitsValue(SubSeq(text, i, j)) :
     <<i, j>> \in {r \in (1..Len(text)) \X (1..Len(text)) :
                    /\ r[1] <= r[2]
                    /\ \A x \in r[1]..r[2] : text[x] \in Digits
                    /\ r[1] = 1 \/ text[r[1] - 1] \notin Digits
                    /\ r[2] = Len(text) \/ text[r[2] + 1] \notin Digits}}

\* C15: for a location expression (read without its white space) that holds an
\* integer, parseLocation returns start = the least and stop = the greatest of the
\* integers in it, strand -1 exactly when it contains "complement" and +1
\* otherwise, and at least one segment, every segment within [start, stop];
\* complement(100..200) gives 100/200/-1 and join(50,100,150) gives 50/150; for an
\* expression without an integer it returns no location.
C15_LocationSpansAllIntegers ==
  locPc = "done" =>
    /\ (IntegersIn(LocText) = {}) <=> (locOut = Null)
    /\ IntegersIn(LocText) # {} =>
         /\ locOut.start = SetMin(IntegersIn(LocText))
         /\ locOut.stop = SetMax(IntegersIn(LocText))
         /\ locOut.start <= locOut.stop
         /\ locOut.strand = (IF Includes(LocText, sComplement) THEN -1 ELSE 1)
         /\ locOut.segments # <<>>
         /\ \A i \in 1..Len(locOut.segments) :
              /\ locOut.start <= locOut.segments[i].start
              /\ locOut.segments[i].start <= locOut.segments[i].end
              /\ locOut.segments[i].end <= locOut.stop
    /\ locIn = sComplement100To200 => (locOut.start = 100 /\ locOut.stop = 200 /\ locOut.strand = -1)
    /\ locIn = sJoin50To150 => (locOut.start = 50 /\ locOut.stop = 150 /\ locOut.strand = 1)

\* join(7,5,9): the least integer is neither the first nor the last one
C15_Witness ==
  /\ locPc = "done"
  /\ locIn = sLocJoin
  /\ locOut # Null
  /\ locOut.start = 5 /\ locOut.stop = 9

-----------------------------------------------------------------------------
(* Properties of ParserRegistry *)

\* one ParserRegistry.parse call
RegSpecInit ==
  RegInit /\ SanIdle /\ NormIdle /\ GbIdle /\ OptIdle
    /\ SampIdle /\ CmIdle /\ LocIdle /\ GffIdle /\ CsvIdle /\ IpcIdle
RegSpec == RegSpecInit /\ [][RegNext]_vars

\* the last segment of the path, trailing slashes dropped
LastSegment(path) ==
  LET ends == {i \in 1..Len(path) : path[i] # "/"}
      last == IF ends = {} THEN 0 ELSE SetMax(ends)
      slashes == {i \in 1..last : path[i] = "/"}
      first == IF slashes = {} THEN 1 ELSE SetMax(slashes) + 1
  IN SubSeq(path, first, last)

\* the extension of a file name: from its last dot on, when that dot follows some
\* character of the name and the name is not ".."
ExtensionOf(name) ==
  LET dots == {i \in 1..Len(name) : name[i] = "."} IN
    IF dots = {} \/ SetMax(dots) = 1 \/ name = <<".", ".">> THEN <<>>
    ELSE SubSeq(name, SetMax(dots), Len(name))

\* the format the request resolves to
ResolvedFormat ==
  LET extension == ToLowerCase(ExtensionOf(LastSegment(regIn.filePath))) IN
    IF regIn.formatHint # "" THEN regIn.formatHint
    ELSE IF extension \in {<<".", "g", "b">>, <<".", "g", "b", "k">>} THEN "genbank"
    ELSE IF extension \in {<<".", "g", "f", "f">>, <<".", "g", "f", "f", "3">>} THEN "gff3"
    ELSE IF extension = <<".", "j", "s", "o", "n">> THEN "json"
    ELSE IF extension = <<".", "c", "s", "v">> THEN "csv"
    ELSE "json"

\* C16: parse resolves the format to the formatHint when one is given, whatever
\* the extension; otherwise by the extension, case-insensitively (.gb/.gbk ->
\* genbank, .gff/.gff3 -> gff3, .json -> json, .csv -> csv), and to json for any
\* other or missing extension; it dispatches to the parser registered for that
\* format, or to the fallback parser when none is, whose result has exactly one
\* placeholder feature and a non-empty list of warnings.
C16_FormatResolution ==
  regPc = "done" =>
    /\ ResolvedFormat \in regParsers => regOut.parser = ResolvedFormat
    /\ ResolvedFormat \notin regParsers =>
         /\ regOut.parser = "fallback"
         /\ Len(regOut.features) = 1
         /\ regOut.warnings # <<>>

\* a csv hint on a .gb path went to the csv parser
C16_Witness ==
  /\ regPc = "done"
  /\ regIn.formatHint = "csv"
  /\ regIn.filePath = <<"a", ".", "g", "b">>
  /\ regParsers = DefaultFormats
  /\ regOut.parser = "csv"

-----------------------------------------------------------------------------
(* Properties of the GFF3 parser *)

\* one Gff3AnnotationParser.parse call
GffSpecInit ==
  GffInit /\ SanIdle /\ NormIdle /\ GbIdle /\ OptIdle
    /\ SampIdle /\ CmIdle /\ LocIdle /\ RegIdle /\ CsvIdle /\ IpcIdle
GffSpec == GffSpecInit /\ [][GffNext]_vars

\* the data lines of the file: not blank and not starting with "#"
DataLines ==
  {i \in 1..Len(gffLines) : Trim(gffLines[i]) # <<>> /\ Head(Trim(gffLines[i])) # "#"}

\* no directive of the file carries a malformed escape
DirectivesDecode ==
  \A i \in 1..Len(gffLines) :
    StartsWith(gffLines[i], sSpecies) => SpeciesOf(gffLines[i]) # Thrown

\* C17 (as claimed): every data line of a GFF3 file gives one feature or one
\* warning and none of them, whatever its attribute column holds, aborts the
\* parse: the parse returns, and its features and warnings together are as many
\* as the data lines.
C17_LineGivesFeatureOrWarning ==
  (DirectivesDecode /\ gffPc \in {"done", "threw"}) =>
    /\ gffPc = "done"
    /\ Len(gffFeatures) + Len(gffWarnings) = Cardinality(DataLines)

\* the lines (1-based) that declare a length and those that declare a species
RegionLines ==
  {i \in 1..Len(gffLines) :
     StartsWith(gffLines[i], sSequenceRegion) /\ RegionLength(gffLines[i]) # Undef}
SpeciesLines ==
  {i \in 1..Len(gffLines) :
     StartsWith(gffLines[i], sSpecies) /\ SpeciesOf(gffLines[i]) # Undef}

\* C28: the metadata of a GFF3 file is first-match-wins: meta.totalLength is
\* that of the first ##sequence-region line with a positive numeric end and
\* meta.organism that of the first ##species line; no later such line changes
\* either, whatever the order of these lines.
C28_MetaFirstMatchWins ==
  gffPc = "scan" =>
    /\ RegionLines # {} => gffMeta.totalLength = RegionLength(gffLines[SetMin(RegionLines)])
    /\ SpeciesLines # {} => gffMeta.organism = SpeciesOf(gffLines[SetMin(SpeciesLines)])

-----------------------------------------------------------------------------
(* Properties of the CSV parser *)

\* one CsvAnnotationParser.parse call
CsvSpecInit ==
  CsvInit /\ SanIdle /\ NormIdle /\ GbIdle /\ OptIdle
    /\ SampIdle /\ CmIdle /\ LocIdle /\ RegIdle /\ GffIdle /\ IpcIdle
CsvSpec == CsvSpecInit /\ [][CsvNext]_vars

\* the header names of the file, lower-cased and without surrounding white space
HeaderNames == {ToLowerCase(Trim(csvHeader[i])) : i \in 1..Len(csvHeader)}

\* the header names a start, and a stop, by one of the names accepted for it
SuppliesStart == HeaderNames \cap {sStart, sBegin} # {}
SuppliesStop == HeaderNames \cap {sStop, sEnd, sMapStop} # {}

\* C18 (as claimed, for a file with data rows): the CSV parser throws exactly when
\* the header lacks every accepted name of a required coordinate - start or begin
\* for the start; stop, end or map_stop for the stop - compared without case and
\* surrounding white space; a header that supplies both is parsed.
C18_ThrowsIffRequiredColumnMissing ==
  (csvPc \in {"done", "threw"} /\ csvCells # <<>>) =>
    ((csvPc = "threw") <=> ~(SuppliesStart /\ SuppliesStop))

\* the column of the header whose name is one of names, 0 when there is none
ColumnNamed(names) ==
  IF \E i \in 1..Len(csvHeader) : ToLowerCase(Trim(csvHeader[i])) \in names
  THEN CHOOSE i \in 1..Len(csvHeader) : ToLowerCase(Trim(csvHeader[i])) \in names
  ELSE 0

\* the cell holds a number: digits, possibly with white space around them
IsNumericCell(cell) == Trim(cell) # <<>> /\ \A i \in 1..Len(Trim(cell)) : Trim(cell)[i] \in Digits
CellValue(cell) == DigitsValue(Trim(cell))

\* the start and the stop cell of a data row (1-based)
StartCell(r) == csvCells[r][ColumnNamed({sStart, sBegin})]
StopCell(r) == csvCells[r][ColumnNamed({sStop, sEnd})]
StartPresent(r) == IsNumericCell(StartCell(r))
StopPresent(r) == IsNumericCell(StopCell(r))

\* the data rows with neither side, and the others, in file order
SkippedRows == SelectSeq([r \in 1..Len(csvCells) |-> r], LAMBDA r : ~StartPresent(r) /\ ~StopPresent(r))
EmittedRows == SelectSeq([r \in 1..Len(csvCells) |-> r], LAMBDA r : StartPresent(r) \/ StopPresent(r))

\* the warnings about rows, the warning about an empty file left aside
RowWarnings == SelectSeq(csvWarnings, LAMBDA w : w # EMPTY_FILE_WARNING)

\* the feature is the one the data row r has to give
FeatureOfRow(feature, r) ==
  /\ feature.id = r - 1
  /\ (StartPresent(r) /\ StopPresent(r)) =>
       /\ feature.start = Min2(CellValue(StartCell(r)), CellValue(StopCell(r)))
       /\ feature.stop = Max2(CellValue(StartCell(r)), CellValue(StopCell(r)))
  /\ (StartPresent(r) /\ ~StopPresent(r)) =>
       (feature.start = CellValue(StartCell(r)) /\ feature.stop = CellValue(StartCell(r)))
  /\ (~StartPresent(r) /\ StopPresent(r)) =>
       (feature.start = CellValue(StopCell(r)) /\ feature.stop = CellValue(StopCell(r)))

RecognizedColumns == CONSUMED_KEYS \cup {sStrand, sDirection}
\* the columns of the file outside the recognized field set, in file order
ExtraColumns ==
  SelectSeq([i \in 1..Len(csvHeader) |-> i],
            LAMBDA i : ToLowerCase(Trim(csvHeader[i])) \notin RecognizedColumns)

\* C29: the qualifiers of a CSV feature are exactly the columns of its row that
\* lie outside the recognized field set, and are absent (never an empty object)
\* when every column is recognized, as in a file with only the columns name,
\* start, stop and strand.
C29_QualifiersAreUnrecognizedColumns ==
  csvPc = "done" =>
    \A k \in 1..Len(csvFeatures) :
      csvFeatures[k].qualifiers =
        IF ExtraColumns = <<>> THEN Undef
        ELSE Map([j \in 1..Len(ExtraColumns) |->
                    [k |-> ToLowerCase(Trim(csvHeader[ExtraColumns[j]])),
                     v |-> Str(csvCells[csvFeatures[k].id + 1][ExtraColumns[j]])]])

-----------------------------------------------------------------------------
(* Properties of the datasets:parse handler *)

\* one invocation of the handler
IpcSpecInit ==
  IpcInit /\ SanIdle /\ NormIdle /\ GbIdle /\ OptIdle
    /\ SampIdle /\ CmIdle /\ LocIdle /\ RegIdle /\ GffIdle /\ CsvIdle
IpcSpec == IpcSpecInit /\ [][IpcNext]_vars

IpcReplied == ipcPc = "replied"
\* the payload names the field with a string that is not empty
Given(field) ==
  /\ ipcPayload.t = "obj"
  /\ field \in DOMAIN ipcPayload.f
  /\ ipcPayload.f[field].t = "str"
  /\ Len(ipcPayload.f[field].s) > 0
FieldMissing == ~Given("projectId") \/ ~Given("filePath")
ParsingFailed == parseFile(ipcParser).t = "error"

\* C23: the datasets:parse handler settles with a value in every case; when
\* projectId or filePath is missing or parsing fails fatally it returns
\* {ok: false, error} and createDataset is not called; createDataset is called
\* at most once, only after parsing and normalization succeeded and with the
\* normalized dataset, and a successful reply carries the warnings of the
\* normalized result.
C23_ParseHandlerNeverRejects ==
  /\ Len(ipcCreated) <= 1
  /\ Len(ipcCreated) = 1 =>
        /\ ~FieldMissing
        /\ ~ParsingFailed
        /\ ipcCreated[1] = CreateDatasetArgument(normalizeResult(ipcParser.result))
  /\ IpcReplied =>
        /\ ipcReply.ok \in BOOLEAN
        /\ (FieldMissing \/ ParsingFailed) =>
              /\ ~ipcReply.ok
              /\ ipcReply.error # ""
              /\ ipcCreated = <<>>
        /\ ipcReply.ok =>
              /\ Len(ipcCreated) = 1
              /\ ipcReply.data.warnings = normalizeResult(ipcParser.result).warnings

\* a file readable and parsed with a warning has been stored once and the
\* reply carries that warning
C23_Witness ==
  /\ IpcReplied
  /\ ipcReply.ok
  /\ Len(ipcCreated) = 1
  /\ PARSER_WARNING \in WarningSet(ipcReply.data.warnings)

====
